---- MODULE Spec2Model ----
(***************************************************************************)
(* BackPedidos: the pedido approval state machine and the document review  *)
(* gate, as implemented by the route handlers of app/routes over one       *)
(* PostgreSQL database (READ COMMITTED, row locks held until commit or     *)
(* rollback).  One pedido (id 1) exists; id 2 names no pedido.  Each       *)
(* archivo row is identified by its tipo_doc (unique per pedido).          *)
(***************************************************************************)
EXTENDS Integers, Sequences, FiniteSets, TLC

\* ---------------------------------------------------------------- bounds
\* No new request is accepted once pedido_historial holds MaxHist rows.
MaxHist == 2
\* Longest notes text (in characters) a caller sends.
MaxNotes == 1
\* Longest number (in characters) passed to the WhatsApp send.
MaxMsisdn == 4

\* ------------------------------------------------------------- constants
Procs == {1, 2}
None == "None"
NoNotes == <<"None">>

Estados ==
    {"borrador", "enviado", "en_revision", "aprobado", "rechazado",
     "en_proceso", "area_pago", "cerrado", "observado"}

\* estados a pedido is created in (GeneralIn.estado; "enviado" is the default)
EstadosAlta == {"borrador", "enviado"}

ALLOWED_TIPO_DOC ==
    {"presupuesto_1", "presupuesto_2", "anexo1_obra", "formal_pdf",
     "expediente_1", "expediente_2"}

\* pedido 1 exists, pedido 2 does not
PedidoIds == {1, 2}

\* the pedido_archivo rows: one per tipo_doc of pedido 1 (named by it), and
\* one formal_pdf row whose pedido_id names no pedido
ArchivoIds == ALLOWED_TIPO_DOC \cup {"huerfano"}
\* row["tipo_doc"] and row["pedido_id"] of an archivo
TipoDoc(archivo_id) == IF archivo_id = "huerfano" THEN "formal_pdf" ELSE archivo_id
PedidoDe(archivo_id) == IF archivo_id = "huerfano" THEN 2 ELSE 1

Chars == {" ", "a"}
RECURSIVE SeqsUpTo(_)
SeqsUpTo(n) ==
    IF n = 0 THEN {<<>>}
    ELSE LET S == SeqsUpTo(n - 1)
         IN S \cup {Append(s, c) : s \in {t \in S : Len(t) = n - 1}, c \in Chars}

\* notes as sent by a caller: absent, or a text over Chars
NotesIn == {NoNotes} \cup SeqsUpTo(MaxNotes)
\* X-User header / changed_by field as sent by a caller
UsersIn == {None, "ana"}
\* pedido.presupuesto_estimado: <<>> is NULL, <<n>> the amount n
MontosIn == {<<>>, <<5000000>>, <<10000000>>, <<10000001>>}

\* ---------------------------------------------------- pure helper functions
\* str.strip(): drop leading and trailing blanks
RECURSIVE LStrip(_)
LStrip(s) == IF s # <<>> /\ Head(s) = " " THEN LStrip(Tail(s)) ELSE s
RECURSIVE RStrip(_)
RStrip(s) ==
    IF s # <<>> /\ s[Len(s)] = " " THEN RStrip(SubSeq(s, 1, Len(s) - 1)) ELSE s
Strip(s) == RStrip(LStrip(s))

\* bug: whitespace counts as notes
NotesMissing_sin_strip(n) == n = NoNotes \/ n = <<>>
\* `not body.notes or not body.notes.strip()`
NotesMissing(n) == n = NoNotes \/ n = <<>> \/ Strip(n) = <<>>

\* `x or default` on an optional string
OrDefault(x, d) == IF x = None \/ x = "" THEN d ELSE x

\* `(notes or None)`
NotesOrNone(n) == IF n = NoNotes \/ n = <<>> THEN NoNotes ELSE n

HistRow(ant, nuevo, motivo, by) ==
    [estado_anterior |-> ant, estado_nuevo |-> nuevo, motivo |-> motivo, changed_by |-> by]

\* ------------------------------------------------------------------ state
VARIABLES
    estado,      \* public.pedido.estado of pedido 1 (committed)
    historial,   \* public.pedido_historial rows of pedido 1 (committed), oldest first
    archivo,     \* public.pedido_archivo: tipo_doc -> review_* of that row (committed)
    pedido,      \* the other columns of pedido 1 the handlers read
    lockP,       \* client holding the row lock of pedido 1 (0: nobody)
    lockA,       \* tipo_doc -> client holding the row lock of that archivo (0: nobody)
    pc,          \* client -> position of its request in the handler
    req,         \* client -> the request it sends (every time the same one)
    out,         \* the last response sent: which client, which HTTP status,
                 \*   whether writes of its transaction were undone, and what the
                 \*   handler had looked up of the request
    loc,         \* client -> handler locals read without a lock
    tx,          \* client -> writes of its open transaction, not yet committed
    caller,      \* texts the clients of this run send: X-User / changed_by, notes / motivo
    creado,      \* history: estado the pedido was created in
    nchg,        \* history: number of commits that changed the value of estado
    clean,       \* history: <<p, k>>: client p got a response with nobody else in flight
                 \*   (k = 1), sent the request again (2), got the second response (3)
    pair,        \* history: two overlapping requests asking for the same target state
    proveedor,   \* public.proveedor: id -> row (committed)
    pedido_proveedor, \* public.pedido_proveedor: <<pedido_id, proveedor_id, rol>> (committed)
    lockV,       \* id -> client holding the row lock of that proveedor (0: nobody)
    wsp          \* the call of _send_with_fallback in progress

db == <<estado, historial, archivo, pedido>>
locks == <<lockP, lockA>>
vars == <<estado, historial, archivo, pedido, lockP, lockA, pc, req, out, loc, tx,
          caller, creado, nchg, clean, pair, proveedor, pedido_proveedor, lockV, wsp>>
\* what the handlers of the pedido routes leave alone
otros == <<proveedor, pedido_proveedor, lockV, wsp>>
\* what the handlers of the proveedores routes leave alone
fijosProv == <<estado, historial, archivo, lockP, lockA, caller, creado, nchg, clean, pair, wsp>>
\* what the WhatsApp send leaves alone
fijosWsp == <<estado, historial, archivo, pedido, lockP, lockA, pc, req, out, loc, tx,
              caller, creado, nchg, clean, pair, proveedor, pedido_proveedor, lockV>>

\* a pedido_archivo row as upload leaves it: review_* all NULL
FreshRow == [review_status |-> None, review_notes |-> NoNotes, reviewed_by |-> None]

NoTx == [est |-> None, rows |-> <<>>, aid |-> None, arow |-> FreshRow]
NoLoc == [estado |-> None, anterior |-> None, x_secretaria |-> None]
NoPair == [on |-> FALSE, target |-> None, base |-> 0]
NotClean == <<0, 0>>

\* what a handler looked up of its request: the ids and the X-Secretaria header
Ask(pedido_id, archivo_id, x_secretaria) ==
    [pedido_id |-> pedido_id, archivo_id |-> archivo_id, x_secretaria |-> x_secretaria,
     body |-> None]
\* the same for PATCH /pedidos/{id}: the id and whether the body sets a field
AskBody(pedido_id, body) == [Ask(pedido_id, None, None) EXCEPT !.body = body]
NoAsk == Ask(0, None, None)
\* storage failures: the server closed the connection, or any other
\* OperationalError / DatabaseError
Faults == {"dropped", "other"}
NoOut == [p |-> 0, code |-> 0, undone |-> FALSE, ask |-> NoAsk, fault |-> None]

Request(op, dec, tipo) == [op |-> op, dec |-> dec, tipo |-> tipo]

\* ------------------------------------------------ transactions (app/db.py)
\* get_conn() yields a pooled psycopg connection with autocommit off: the
\* writes of a request stay in its transaction until conn.commit() or the
\* normal exit of the `with` block (commit); an exception leaving the block
\* rolls the transaction back.  Row locks are released at either end.
DbCommit(v, w) == IF w = None THEN v ELSE w
\* bug: a failed request leaves its UPDATE of estado in place
DbRollback_parcial(v, w) == IF w = None THEN v ELSE w
DbRollback(v, w) == v
\* bug: the rows of the transaction replace the rows of the pedido
HistCommit_reemplaza(h, rows) == IF rows = <<>> THEN h ELSE rows
HistCommit(h, rows) == h \o rows
HistRollback(h, rows) == h
\* bug: the UPDATE of review_* has no WHERE id=%s and writes every row
ArchCommit_todas(a, aid, row) == IF aid = None THEN a ELSE [t \in DOMAIN a |-> row]
ArchCommit(a, aid, row) == IF aid = None THEN a ELSE [a EXCEPT ![aid] = row]
\* bug: a failed request leaves its UPDATE of review_* in place
ArchRollback_parcial(a, aid, row) == IF aid = None THEN a ELSE [a EXCEPT ![aid] = row]
ArchRollback(a, aid, row) == a

\* bug: reads and writes go ahead without waiting for the row lock
RowLockFree_sin_espera(holder) == TRUE
\* a row lock (SELECT ... FOR UPDATE, UPDATE) is granted when nobody holds it
RowLockFree(holder) == holder = 0

\* bug: the commit releases the lock of the pedido row only
Unlock_solo_pedido(p) ==
    /\ lockP' = IF lockP = p THEN 0 ELSE lockP
    /\ lockA' = lockA
Unlock(p) ==
    /\ lockP' = IF lockP = p THEN 0 ELSE lockP
    /\ lockA' = [t \in ArchivoIds |-> IF lockA[t] = p THEN 0 ELSE lockA[t]]

InFlight(q) == pc[q] # "idle"
Alone(p) == \A q \in Procs \ {p} : ~InFlight(q)

\* the request of client p ends with HTTP status `code`
RespondWith(p, code, ask, fault) ==
    /\ pc' = [pc EXCEPT ![p] = "idle"]
    /\ out' = [p |-> p, code |-> code,
               undone |-> code # 200 /\ (tx[p].est # None \/ tx[p].aid # None),
               ask |-> ask, fault |-> fault]
    /\ UNCHANGED req
    /\ clean' = IF clean = <<p, 2>> THEN <<p, 3>>
                ELSE IF Alone(p) /\ code \in {200, 409, 422} THEN <<p, 1>> ELSE NotClean

RespondAs(p, code, ask) == RespondWith(p, code, ask, None)
Respond(p, code) == RespondAs(p, code, NoAsk)

CommitAs(p, code, ask) ==
    /\ estado' = DbCommit(estado, tx[p].est)
    /\ historial' = HistCommit(historial, tx[p].rows)
    /\ archivo' = ArchCommit(archivo, tx[p].aid, tx[p].arow)
    /\ nchg' = IF estado' # estado THEN nchg + 1 ELSE nchg
    /\ tx' = [tx EXCEPT ![p] = NoTx]
    /\ loc' = [loc EXCEPT ![p] = NoLoc]
    /\ Unlock(p)
    /\ RespondAs(p, code, ask)
    /\ UNCHANGED <<pedido, caller, creado, pair>>

Commit(p, code) == CommitAs(p, code, NoAsk)

RollbackWith(p, code, ask, fault) ==
    /\ estado' = DbRollback(estado, tx[p].est)
    /\ historial' = HistRollback(historial, tx[p].rows)
    /\ archivo' = ArchRollback(archivo, tx[p].aid, tx[p].arow)
    /\ nchg' = IF estado' # estado THEN nchg + 1 ELSE nchg
    /\ tx' = [tx EXCEPT ![p] = NoTx]
    /\ loc' = [loc EXCEPT ![p] = NoLoc]
    /\ Unlock(p)
    /\ RespondWith(p, code, ask, fault)
    /\ UNCHANGED <<pedido, caller, creado, pair>>

RollbackAs(p, code, ask) == RollbackWith(p, code, ask, None)
Rollback(p, code) == RollbackAs(p, code, NoAsk)

\* the request of client p goes on to `next` with pending writes t (database untouched)
Stage(p, next, t) ==
    /\ pc' = [pc EXCEPT ![p] = next]
    /\ tx' = [tx EXCEPT ![p] = t]
    /\ UNCHANGED <<db, req, out, loc, caller, creado, nchg, clean, pair>>

\* ------------------------------------------------------ request arrival
PresupuestoDocs == {"presupuesto_1", "presupuesto_2"}

\* estado a document approval moves the pedido to (ui.py:537-542; archivos.py:243-324)
\* bug: the two expedientes lead to each other's estado
DocTarget_cruzado(tipo) ==
    CASE tipo = "formal_pdf" -> "en_proceso"
      [] tipo = "expediente_1" -> "cerrado"
      [] tipo = "expediente_2" -> "area_pago"
      [] OTHER -> None
\* the estado the approval of a document of this tipo_doc leads to
DocTarget(tipo) ==
    CASE tipo = "formal_pdf" -> "en_proceso"
      [] tipo = "expediente_1" -> "area_pago"
      [] tipo = "expediente_2" -> "cerrado"
      [] OTHER -> None

\* state a decision or review request asks for, when it asks for one
Target(r) ==
    CASE r.op = "decidir_pedido" ->
            (CASE r.dec = "aprobar" -> "aprobado"
               [] r.dec = "observar" -> "observado"
               [] r.dec = "rechazar" -> "rechazado"
               [] OTHER -> None)
      [] r.op = "ui_pedidos_set_estado" -> r.dec
      [] r.op = "review_archivo" /\ r.dec = "aprobado" ->
            IF r.tipo \in PresupuestoDocs THEN "aprobado" ELSE DocTarget(r.tipo)
      [] r.op = "ui_review_archivo" /\ r.dec = "aprobado" -> DocTarget(r.tipo)
      [] OTHER -> None

\* client p sends its request; the handler starts at `first`
Arrive(p, op, first) ==
    /\ pc[p] = "idle"
    /\ req[p].op = op
    /\ Len(historial) < MaxHist
    /\ pc' = [pc EXCEPT ![p] = first]
    /\ clean' = IF clean \in {<<p, 1>>, <<p, 3>>} THEN <<p, 2>> ELSE NotClean
    /\ pair' = IF \E q \in Procs \ {p} :
                     InFlight(q) /\ Target(req[p]) # None /\ Target(req[q]) = Target(req[p])
               THEN [on |-> TRUE, target |-> Target(req[p]), base |-> Len(historial)]
               ELSE NoPair
    /\ out' = NoOut
    /\ UNCHANGED <<db, locks, req, loc, tx, caller, creado, nchg>>

\* a request sent again is the same request: same ids, same headers
Again(p) == clean = <<p, 2>>
PedidoIdsOf(p) == IF Again(p) THEN {1} ELSE PedidoIds

\* ------------------------- decidir_pedido (app/routes/pedidos_acciones.py)
DecisionsIn == {"aprobar", " Aprobar", "observar", "rechazar", "borrar"}
\* (body.decision or "").lower().strip() on DecisionsIn
LowerStrip(d) == IF d = " Aprobar" THEN "aprobar" ELSE d

\* bug: only an aprobado pedido refuses the approval
NoAprobarDesde_corto == {"aprobado"}
NoAprobarDesde == {"aprobado", "cerrado", "area_pago", "en_proceso"}

\* the request arrives; the decision is validated before any database access
decidir_pedido_begin(p) ==
    Arrive(p, "decidir_pedido",
           IF LowerStrip(req[p].dec) \in {"aprobar", "observar", "rechazar"}
           THEN "d_lock" ELSE "d_422")

decidir_pedido_invalid(p) ==
    /\ pc[p] = "d_422"
    /\ Respond(p, 422)
    /\ UNCHANGED <<db, locks, loc, tx, caller, creado, nchg, pair>>

\* SELECT estado ... FOR UPDATE, the decision rules, UPDATE and INSERT
decidir_pedido_lock(p) ==
    /\ pc[p] = "d_lock"
    /\ \E pedido_id \in PedidoIdsOf(p) :
         IF pedido_id # 1
         THEN RollbackAs(p, 404, Ask(pedido_id, None, None))
         ELSE /\ RowLockFree(lockP)
              /\ LET estado_actual == estado
                     dec == LowerStrip(req[p].dec)
                     estado_nuevo ==
                         CASE dec = "aprobar" -> "aprobado"
                           [] dec = "observar" -> "observado"
                           [] dec = "rechazar" -> "rechazado"
                 IN IF dec = "aprobar" /\ estado_actual \in NoAprobarDesde
                    THEN RollbackAs(p, 409, Ask(pedido_id, None, None))
                    ELSE IF dec \in {"observar", "rechazar"} /\ NotesMissing(caller.notes)
                    THEN RollbackAs(p, 422, Ask(pedido_id, None, None))
                    ELSE IF estado_nuevo # estado_actual
                    THEN /\ Stage(p, "d_commit",
                                  [NoTx EXCEPT !.est = estado_nuevo,
                                               !.rows = <<HistRow(estado_actual, estado_nuevo,
                                                                  caller.notes,
                                                                  OrDefault(caller.user, "ui"))>>])
                         /\ lockP' = p
                         /\ UNCHANGED lockA
                    ELSE CommitAs(p, 200, Ask(pedido_id, None, None))

decidir_pedido_commit(p) ==
    /\ pc[p] = "d_commit"
    /\ CommitAs(p, 200, Ask(1, None, None))

\* ----------------------------- ui_pedidos_set_estado (app/routes/ui.py)
\* bug: the request may ask for any estado of the early stages
EstadoNuevo_amplio == {"aprobado", "en_revision", "borrador"}
EstadoNuevo == {"aprobado", "en_revision"}
UMBRAL == 10000000

\* X-Secretaria header values
SecretariasIn ==
    {None, " obras ", "Salud", "Sec. de Economia", "Area de Compras", "Secretaria de Compras"}
\* str.strip().upper() on the header values and on secretaria.nombre
StripUpper(s) ==
    CASE s = " obras " -> "OBRAS"
      [] s = "Obras" -> "OBRAS"
      [] s = "Salud" -> "SALUD"
      [] s = "Sec. de Economia" -> "SEC. DE ECONOMIA"
      [] s = "Area de Compras" -> "AREA DE COMPRAS"
      [] s = "Secretaria de Compras" -> "SECRETARIA DE COMPRAS"
      [] OTHER -> ""

_infer_role(nombre_secretaria) ==
    LET s == StripUpper(OrDefault(nombre_secretaria, ""))
    IN IF s \in {"SEC. DE ECONOMIA"} THEN "economia_admin"
       ELSE IF s \in {"AREA DE COMPRAS"} THEN "area_compras"
       ELSE IF s \in {"SECRETARIA DE COMPRAS"} THEN "secretaria_compras"
       ELSE "secretaria"

\* row["presupuesto_estimado"] or Decimal(0)
MontoDe(row) == IF row.presupuesto_estimado = <<>> THEN 0 ELSE row.presupuesto_estimado[1]

\* bug: a caller that resolves to no role is let through, header or not
Permiso_sin_secretaria(x_secretaria, row) ==
    LET monto == MontoDe(row)
        rol == _infer_role(x_secretaria)
    IN CASE rol = "economia_admin" -> TRUE
         [] rol = "area_compras" -> monto > UMBRAL
         [] rol = "secretaria_compras" -> monto <= UMBRAL
         [] OTHER -> TRUE
\* bug: area_compras is let through at the threshold itself
Permiso_umbral_inclusivo(x_secretaria, row) ==
    LET monto == MontoDe(row)
        rol == _infer_role(x_secretaria)
    IN CASE rol = "economia_admin" -> TRUE
         [] rol = "area_compras" -> monto >= UMBRAL
         [] rol = "secretaria_compras" -> monto <= UMBRAL
         [] OTHER -> /\ OrDefault(x_secretaria, "") # ""
                     /\ StripUpper(x_secretaria) = StripUpper(row.secretaria_nombre)
\* the permission gate of ui_pedidos_set_estado: TRUE when the caller may go on
Permiso(x_secretaria, row) ==
    LET monto == IF row.presupuesto_estimado = <<>> THEN 0 ELSE row.presupuesto_estimado[1]
        rol == _infer_role(x_secretaria)
    IN CASE rol = "economia_admin" -> TRUE
         [] rol = "area_compras" -> monto > UMBRAL
         [] rol = "secretaria_compras" -> monto <= UMBRAL
         [] OTHER -> /\ OrDefault(x_secretaria, "") # ""
                     /\ StripUpper(x_secretaria) = StripUpper(row.secretaria_nombre)

SecretariasOf(p) ==
    IF Again(p) THEN {x \in SecretariasIn : Permiso(x, pedido)} ELSE SecretariasIn

ui_pedidos_set_estado_begin(p) == Arrive(p, "ui_pedidos_set_estado", "s_lock")

\* SELECT ... FOR UPDATE, permission gate, idempotence check, UPDATE and INSERT
ui_pedidos_set_estado_lock(p) ==
    /\ pc[p] = "s_lock"
    /\ \E pedido_id \in PedidoIdsOf(p), x_secretaria \in SecretariasOf(p) :
         IF pedido_id # 1
         THEN RollbackAs(p, 404, Ask(pedido_id, None, None))
         ELSE /\ RowLockFree(lockP)
              /\ LET estado_anterior == estado
                     estado_nuevo == req[p].dec
                 IN IF ~Permiso(x_secretaria, pedido)
                    THEN RollbackAs(p, 403, Ask(pedido_id, None, x_secretaria))
                    ELSE IF estado_anterior = estado_nuevo
                    THEN CommitAs(p, 200, Ask(pedido_id, None, x_secretaria))
                    ELSE /\ pc' = [pc EXCEPT ![p] = "s_commit"]
                         /\ tx' = [tx EXCEPT ![p] =
                                     [NoTx EXCEPT !.est = estado_nuevo,
                                                  !.rows = <<HistRow(estado_anterior,
                                                                     estado_nuevo, caller.notes,
                                                                     OrDefault(caller.user, "ui"))>>]]
                         /\ loc' = [loc EXCEPT ![p].x_secretaria = x_secretaria]
                         /\ lockP' = p
                         /\ UNCHANGED <<db, lockA, req, out, caller, creado, nchg, clean, pair>>

\* the `with` block is left by `return`: the connection commits
ui_pedidos_set_estado_commit(p) ==
    /\ pc[p] = "s_commit"
    /\ CommitAs(p, 200, Ask(1, None, loc[p].x_secretaria))

\* -------------------- review_archivo (app/routes/archivos.py) and
\* -------------------- ui_review_archivo (app/routes/ui.py)
ReviewDecisions == {"aprobado", "observado"}
\* (decision or "").strip().lower() on the decisions the clients send
StripLower(d) == IF d = " Aprobado" THEN "aprobado" ELSE d

\* f"aprobación de {tipo_doc}" and the literals of archivos.py, as one-word texts
MotivoReview(op, tipo) ==
    IF op = "review_archivo" /\ tipo \in PresupuestoDocs
    THEN <<"aprobación de presupuesto">>
    ELSE CASE tipo = "formal_pdf" -> <<"aprobación de formal_pdf">>
           [] tipo = "expediente_1" -> <<"aprobación de expediente_1">>
           [] tipo = "expediente_2" -> <<"aprobación de expediente_2">>
           [] OTHER -> NoNotes

\* does the approval of a document of this tipo_doc go on to lock the pedido?
MovesPedido(op, tipo) ==
    \/ tipo \in {"formal_pdf", "expediente_1", "expediente_2"}
    \/ op = "review_archivo" /\ tipo \in PresupuestoDocs

\* bug: the approval writes its estado without comparing it with the current one
ReviewNuevo_sin_comparar(op, tipo, estado_anterior) ==
    IF op = "review_archivo" /\ tipo \in PresupuestoDocs THEN "aprobado" ELSE DocTarget(tipo)
\* estado the approval writes when the pedido is in estado_anterior (None: none)
ReviewNuevo(op, tipo, estado_anterior) ==
    IF op = "review_archivo" /\ tipo \in PresupuestoDocs
    THEN IF estado_anterior = "enviado" THEN "aprobado" ELSE None
    ELSE IF estado_anterior # DocTarget(tipo) THEN DocTarget(tipo) ELSE None

\* archivo ids a request names: the row of its tipo_doc, or no row at all
ArchivoExiste(p) == IF Again(p) THEN {TRUE} ELSE BOOLEAN

review_archivo_begin(p) ==
    Arrive(p, "review_archivo",
           IF StripLower(req[p].dec) \in ReviewDecisions THEN "r_lockA" ELSE "r_422")

review_archivo_invalid(p) ==
    /\ pc[p] = "r_422"
    /\ Respond(p, 422)
    /\ UNCHANGED <<db, locks, loc, tx, caller, creado, nchg, pair>>

\* ReviewIn.decision is a Literal: other values never reach the handler
ui_review_archivo_begin(p) == Arrive(p, "ui_review_archivo", "r_lockA")

\* SELECT ... FROM pedido_archivo ... FOR UPDATE and the UPDATE of review_*
ReviewLockArchivo(p) ==
    /\ pc[p] = "r_lockA"
    /\ \E existe \in ArchivoExiste(p) :
         IF ~existe
         THEN RollbackAs(p, 404, Ask(0, "desconocido", None))
         ELSE LET archivo_id == req[p].tipo
                  tipo_doc == TipoDoc(archivo_id)
                  decision == StripLower(req[p].dec)
              IN /\ RowLockFree(lockA[archivo_id])
                 /\ lockA' = [lockA EXCEPT ![archivo_id] = p]
                 /\ UNCHANGED lockP
                 /\ Stage(p,
                          IF decision = "aprobado" /\ MovesPedido(req[p].op, tipo_doc)
                          THEN "r_lockP" ELSE "r_commit",
                          [NoTx EXCEPT !.aid = archivo_id,
                                       !.arow = [review_status |-> decision,
                                                 review_notes |-> NotesOrNone(caller.notes),
                                                 reviewed_by |-> OrDefault(caller.user, "ui")]])

\* SELECT estado FROM pedido ... FOR UPDATE, then UPDATE and INSERT when the rule applies
ReviewLockPedido(p) ==
    /\ pc[p] = "r_lockP"
    /\ IF PedidoDe(req[p].tipo) # 1
       THEN RollbackAs(p, 404, Ask(PedidoDe(req[p].tipo), req[p].tipo, None))
       ELSE /\ RowLockFree(lockP)
            /\ lockP' = p
            /\ UNCHANGED lockA
            /\ LET estado_anterior == estado
                   tipo_doc == TipoDoc(req[p].tipo)
                   nuevo_estado == ReviewNuevo(req[p].op, tipo_doc, estado_anterior)
               IN Stage(p, "r_commit",
                        IF nuevo_estado = None THEN tx[p]
                        ELSE [tx[p] EXCEPT !.est = nuevo_estado,
                                           !.rows = <<HistRow(estado_anterior, nuevo_estado,
                                                              MotivoReview(req[p].op, tipo_doc),
                                                              OrDefault(caller.user, "ui"))>>])

ReviewCommit(p) ==
    /\ pc[p] = "r_commit"
    /\ CommitAs(p, 200, Ask(PedidoDe(req[p].tipo), req[p].tipo, None))

\* ------------------ upload_archivo and _set_estado (app/routes/pedidos.py)
upload_archivo_begin(p) == Arrive(p, "upload_archivo", "u_check")

\* validations, first transaction (does the pedido exist?), upload to Storage
UploadCheck(p, next) ==
    \E archivo_ok \in BOOLEAN, pedido_id \in PedidoIdsOf(p), storage_ok \in BOOLEAN :
       IF req[p].tipo \notin ALLOWED_TIPO_DOC \/ ~archivo_ok
       THEN Rollback(p, 400)
       ELSE IF pedido_id # 1
       THEN Rollback(p, 404)
       ELSE IF ~storage_ok
       THEN Rollback(p, 500)
       ELSE /\ pc' = [pc EXCEPT ![p] = next]
            /\ UNCHANGED <<db, locks, req, out, loc, tx, caller, creado, nchg, clean, pair>>

upload_archivo_check(p) ==
    /\ pc[p] = "u_check"
    /\ UploadCheck(p, "u_meta")

\* second transaction: the upsert of the metadata; review_* are not in its SET list
upload_archivo_meta(p) ==
    /\ pc[p] = "u_meta"
    /\ RowLockFree(lockA[req[p].tipo])
    /\ archivo' = [archivo EXCEPT ![req[p].tipo] = archivo[req[p].tipo]]
    /\ pc' = [pc EXCEPT ![p] = "u_read"]
    /\ UNCHANGED <<estado, historial, pedido, locks, req, out, loc, tx, caller, creado,
                   nchg, clean, pair>>

\* changed_by=f"upload:{tipo_doc}" of the three calls of _set_estado
ChangedByUpload(tipo) ==
    CASE tipo = "formal_pdf" -> "upload:formal_pdf"
      [] tipo = "expediente_1" -> "upload:expediente_1"
      [] tipo = "expediente_2" -> "upload:expediente_2"
      [] OTHER -> "system"

\* estados an uploaded formal_pdf moves the pedido from
FormalDesde == {"borrador", "enviado", "en_revision", "aprobado"}

\* third transaction: SELECT estado (no lock) and the rule of the tipo_doc
upload_archivo_read(p) ==
    /\ pc[p] = "u_read"
    /\ LET tipo_doc == req[p].tipo
           moves == CASE tipo_doc = "formal_pdf" -> estado \in FormalDesde
                      [] tipo_doc \in {"expediente_1", "expediente_2"} -> estado # "cerrado"
                      [] OTHER -> FALSE
       IN IF moves
          THEN /\ pc' = [pc EXCEPT ![p] = "u_set"]
               /\ loc' = [loc EXCEPT ![p].estado = estado]
               /\ UNCHANGED <<db, locks, req, out, tx, caller, creado, nchg, clean, pair>>
          ELSE Commit(p, 200)

\* _set_estado: SELECT estado (no lock) and the comparison with `nuevo`
_set_estado_read(p) ==
    /\ pc[p] = "u_set"
    /\ LET anterior == estado
           nuevo == DocTarget(req[p].tipo)
       IN IF anterior = nuevo
          THEN Commit(p, 200)
          ELSE /\ pc' = [pc EXCEPT ![p] = "u_upd"]
               /\ loc' = [loc EXCEPT ![p].anterior = anterior]
               /\ UNCHANGED <<db, locks, req, out, tx, caller, creado, nchg, clean, pair>>

\* _set_estado: UPDATE pedido SET estado (waits for the row lock) and INSERT historial
_set_estado_update(p) ==
    /\ pc[p] = "u_upd"
    /\ RowLockFree(lockP)
    /\ lockP' = p
    /\ UNCHANGED lockA
    /\ /\ pc' = [pc EXCEPT ![p] = "u_commit"]
       /\ tx' = [tx EXCEPT ![p] =
                   [NoTx EXCEPT !.est = DocTarget(req[p].tipo),
                                !.rows = <<HistRow(loc[p].anterior, DocTarget(req[p].tipo),
                                                   NoNotes, ChangedByUpload(req[p].tipo))>>]]
       /\ UNCHANGED <<db, req, out, loc, caller, creado, nchg, clean, pair>>

upload_archivo_commit(p) ==
    /\ pc[p] = "u_commit"
    /\ Commit(p, 200)

\* ----------------------------------- ui_upload_formal (app/routes/ui.py)
ui_upload_formal_begin(p) == Arrive(p, "ui_upload_formal", "f_check")

\* its own checks of the file, then upload_archivo(tipo_doc="formal_pdf")
ui_upload_formal_check(p) ==
    /\ pc[p] = "f_check"
    /\ \E pdf \in {"pdf", "sin_nombre", "otro_tipo"} :
         IF pdf = "sin_nombre" THEN Rollback(p, 400)
         ELSE IF pdf = "otro_tipo" THEN Rollback(p, 415)
         ELSE /\ pc' = [pc EXCEPT ![p] = "u_check"]
              /\ UNCHANGED <<db, locks, req, out, loc, tx, caller, creado, nchg, clean, pair>>

\* ------------------------------------- ui_pedidos_list (app/routes/ui.py)
ui_pedidos_list_begin(p) == Arrive(p, "ui_pedidos_list", "l_1")

\* for attempt in (1, 2): the query; "server closed the connection
\* unexpectedly" on attempt 1 goes round again, every other failure is a 500
ui_pedidos_list_attempt(p) ==
    /\ pc[p] \in {"l_1", "l_2"}
    /\ \E r \in {"rows"} \cup Faults :
         IF r = "rows"
         THEN /\ Respond(p, 200)
              /\ UNCHANGED <<db, locks, loc, tx, caller, creado, nchg, pair>>
         ELSE IF r = "dropped" /\ pc[p] = "l_1"
         THEN /\ pc' = [pc EXCEPT ![p] = "l_2"]
              /\ UNCHANGED <<db, locks, req, out, loc, tx, caller, creado, nchg, clean, pair>>
         ELSE /\ RespondWith(p, 500, NoAsk, r)
              /\ UNCHANGED <<db, locks, loc, tx, caller, creado, nchg, pair>>

\* --------------------------- upload_archivo (app/routes/archivos.py)
archivos_upload_archivo_begin(p) == Arrive(p, "archivos.upload_archivo", "a_check")

archivos_upload_archivo_check(p) ==
    /\ pc[p] = "a_check"
    /\ UploadCheck(p, "a_meta")

\* the upsert; ON CONFLICT resets review_* to NULL; committed at once
archivos_upload_archivo_meta(p) ==
    /\ pc[p] = "a_meta"
    /\ RowLockFree(lockA[req[p].tipo])
    /\ archivo' = [archivo EXCEPT ![req[p].tipo] = FreshRow]
    /\ UNCHANGED <<estado, historial, pedido, locks, loc, tx, caller, creado, nchg, pair>>
    /\ Respond(p, 200)

\* ----------------------- update_pedido (app/routes/pedidos_acciones.py)
update_pedido_begin(p) == Arrive(p, "update_pedido", "e_upd")

\* bug: the column is set whether or not the body carries the field
Sets_siempre(presupuesto_estimado) == {"presupuesto_estimado = %s"}
\* sets: the assignments of the fields the body carries
Sets(presupuesto_estimado) ==
    IF presupuesto_estimado = <<>> THEN {} ELSE {"presupuesto_estimado = %s"}

\* body.presupuesto_estimado: absent (nothing to set) or a new amount
update_pedido_update(p) ==
    /\ pc[p] = "e_upd"
    /\ \E presupuesto_estimado \in MontosIn, pedido_id \in PedidoIdsOf(p) :
         LET body == IF presupuesto_estimado = <<>> THEN "vacio" ELSE "monto"
         IN IF Sets(presupuesto_estimado) = {}
            THEN /\ RespondAs(p, 200, AskBody(pedido_id, body))
                 /\ UNCHANGED <<db, locks, loc, tx, caller, creado, nchg, pair>>
            ELSE IF pedido_id # 1
            THEN RollbackAs(p, 404, AskBody(pedido_id, body))
            ELSE /\ RowLockFree(lockP)
                 /\ pedido' = [pedido EXCEPT !.presupuesto_estimado = presupuesto_estimado]
                 /\ RespondAs(p, 200, AskBody(pedido_id, body))
                 /\ UNCHANGED <<estado, historial, archivo, locks, loc, tx, caller, creado,
                                nchg, pair>>

\* ------------------------------------------------------------ failures
\* a request whose transaction is open fails (connection lost, statement
\* error): the exception leaves the `with` block and the writes are undone
InTx == {"d_lock", "d_commit", "s_lock", "s_commit", "r_lockA", "r_lockP", "r_commit",
         "u_read", "u_set", "u_upd", "u_commit"}

Fail(p) ==
    /\ pc[p] \in InTx
    /\ \E fault \in Faults : RollbackWith(p, 500, NoAsk, fault)

\* ------------------------------------- proveedores (app/routes/proveedores.py)
\* Texts are sequences of characters.  Two proveedores exist (ids 1 and 2);
\* a third CUIT names none, so each client can insert one row at most.
\* re.sub(r"\D", "", s)
DigitsOnly(s) ==
    SelectSeq(s, LAMBDA c : c \in {"0", "1", "2", "3", "4", "5", "6", "7", "8", "9"})
_norm_cuit(cuit) == DigitsOnly(cuit)
\* the text _to_e164 returns (it raises ValueError outside 8 to 15 digits)
_to_e164(phone) == <<"+">> \o DigitsOnly(phone)

\* the CUITs the clients send: of proveedor 1 (with a hyphen), of proveedor 2,
\* of no proveedor, and one too short
Cuit ==
    [a |-> <<"2", "0", "-", "1", "1", "1", "1", "1", "1">>,
     b |-> <<"2", "0", "2", "2", "2", "2", "2", "2">>,
     nuevo |-> <<"2", "0", "-", "3", "3", "3", "3", "3", "3">>,
     malo |-> <<"2", "0", "-", "1">>]
\* the telefonos the clients send: one number in three spellings, and one too
\* short; <<>> is an absent (or empty) telefono
Tel ==
    [mas |-> <<"+", "5", "4", "9", "1", "1", "1", "1", "1">>,
     solo |-> <<"5", "4", "9", "1", "1", "1", "1", "1">>,
     espacios |-> <<"5", "4", " ", "9", "1", "1", "1", "1", "1">>,
     malo |-> <<"1", "2", "3">>]

ProvIds == 1..(2 + Cardinality(Procs))
\* a row of public.proveedor (email_contacto is written as razon_social is);
\* the row with cuit <<>> stands for no row with that id
ProvRow(cuit, razon_social, telefono) ==
    [cuit |-> cuit, razon_social |-> razon_social, telefono |-> telefono]
ProveedorInicial(telefono) ==
    [id \in ProvIds |->
        CASE id = 1 -> ProvRow(Cuit.a, <<"A">>, telefono)
          [] id = 2 -> ProvRow(Cuit.b, <<"B">>, <<>>)
          [] OTHER -> ProvRow(<<>>, <<>>, <<>>)]

ProvRequest(op, cuit, telefono, transfer_if_in_use) ==
    [op |-> op, cuit |-> cuit, telefono |-> telefono,
     transfer_if_in_use |-> transfer_if_in_use,
     razon_social |-> IF op = "agregar_a_pedido" THEN <<>> ELSE <<"R">>,
     pedido_id |-> 1, rol |-> "consulta", set_adjudicado |-> FALSE]
ProvRequests ==
    LET validos == {Cuit.a, Cuit.b, Cuit.nuevo}
        todos == validos \cup {Cuit.malo}
    IN {ProvRequest("upsert_proveedor", c, <<>>, FALSE) : c \in todos}
       \cup {ProvRequest("upsert_proveedor", c, Tel.mas, t) : c \in validos, t \in BOOLEAN}
       \cup {ProvRequest("upsert_proveedor", Cuit.a, Tel.malo, FALSE)}
       \cup {ProvRequest("upsert_telefono", c, Tel.solo, t) : c \in todos, t \in BOOLEAN}
       \cup {ProvRequest("upsert_telefono", Cuit.a, Tel.malo, FALSE)}
       \cup {ProvRequest("agregar_a_pedido", c, tel, FALSE) :
                c \in todos, tel \in {<<>>, Tel.espacios}}
       \cup {ProvRequest("agregar_a_pedido", Cuit.a, Tel.malo, FALSE)}
       \cup {[ProvRequest("agregar_a_pedido", Cuit.b, <<>>, FALSE) EXCEPT !.pedido_id = 2]}
       \cup {[ProvRequest("agregar_a_pedido", Cuit.b, <<>>, FALSE)
                 EXCEPT !.rol = "adjudicatario", !.set_adjudicado = s] : s \in BOOLEAN}

\* locals of a handler: cuit_norm, tel, prov_id / dst_id, holder (0: none)
NoProvLoc == [cuit_norm |-> <<>>, tel |-> <<>>, prov_id |-> 0, holder |-> 0]
\* the response: client, status, and the locals the handler ended with
NoProvOut == [p |-> 0, code |-> 0, op |-> None, loc |-> NoProvLoc]

\* writes of an open transaction: pairs <<id, row>>
Apply(table, w) ==
    [id \in ProvIds |->
        IF \E x \in w : x[1] = id THEN (CHOOSE x \in w : x[1] = id)[2] ELSE table[id]]
\* READ COMMITTED: a statement of p sees the committed rows and p's own writes
View(p) == Apply(proveedor, tx[p])
Writes(w, id, row) == {x \in w : x[1] # id} \cup {<<id, row>>}

\* a row lock (UPDATE) is granted when nobody else holds it
CanLock(p, id) == lockV[id] \in {0, p}
Locks(p, id) == CanLock(p, id) /\ lockV' = [lockV EXCEPT ![id] = p]

\* client p sends its request; each handler starts with its validations
ProvArrive(p) ==
    /\ pc[p] = "idle"
    /\ pc' = [pc EXCEPT ![p] = "p_check"]
    /\ out' = NoProvOut
    /\ UNCHANGED <<proveedor, pedido_proveedor, pedido, lockV, req, loc, tx>>
    /\ UNCHANGED fijosProv

\* the request of p ends with HTTP status `code`; l: the locals it ended
\* with; the locks of its transaction are released
ProvEnd(p, code, l) ==
    /\ pc' = [pc EXCEPT ![p] = "idle"]
    /\ out' = [p |-> p, code |-> code, op |-> req[p].op, loc |-> l]
    /\ loc' = [loc EXCEPT ![p] = NoProvLoc]
    /\ tx' = [tx EXCEPT ![p] = {}]
    /\ lockV' = [id \in ProvIds |-> IF lockV[id] = p THEN 0 ELSE lockV[id]]
    /\ UNCHANGED req
    /\ UNCHANGED fijosProv

\* an HTTPException or an error leaves the `with` block: rollback
ProvAbort(p, code, l) ==
    /\ UNCHANGED <<proveedor, pedido_proveedor, pedido>>
    /\ ProvEnd(p, code, l)

\* con.commit() with the writes w; the link and pedido.adjudicado_a go with it
ProvDone(p, w, links, adjudicado_a) ==
    /\ proveedor' = Apply(proveedor, w)
    /\ pedido_proveedor' = pedido_proveedor \cup links
    /\ pedido' = IF adjudicado_a = 0 THEN pedido
                 ELSE [pedido EXCEPT !.adjudicado_a = adjudicado_a]
    /\ ProvEnd(p, 200, loc[p])

\* the handler goes on to `next` with locals l and writes w
ProvStep(p, next, l, w) ==
    /\ pc' = [pc EXCEPT ![p] = next]
    /\ loc' = [loc EXCEPT ![p] = l]
    /\ tx' = [tx EXCEPT ![p] = w]
    /\ UNCHANGED <<proveedor, pedido_proveedor, pedido, req, out>>
    /\ UNCHANGED fijosProv

\* the validations before the transaction: CUIT_RE.fullmatch (8 to 11
\* digits), then _to_e164 (always in upsert_telefono, else when a telefono came)
ProvCheck(p) ==
    /\ pc[p] = "p_check"
    /\ LET cuit_norm == _norm_cuit(req[p].cuit)
           digits == DigitsOnly(req[p].telefono)
       IN IF \/ Len(cuit_norm) \notin 8..11
             \/ /\ req[p].op = "upsert_telefono" \/ req[p].telefono # <<>>
                /\ Len(digits) \notin 8..15
          THEN ProvAbort(p, 400, loc[p])
          ELSE /\ ProvStep(p,
                           CASE req[p].op = "upsert_proveedor" -> "pu_fetch"
                             [] req[p].op = "upsert_telefono" -> "pt_fetch"
                             [] req[p].op = "agregar_a_pedido" -> "pa_fetch",
                           [NoProvLoc EXCEPT !.cuit_norm = cuit_norm,
                                             !.tel = IF req[p].telefono = <<>> THEN <<>>
                                                     ELSE _to_e164(req[p].telefono)],
                           tx[p])
               /\ UNCHANGED lockV

\* _fetch_proveedor_by_cuit: ids of the rows the query can return (LIMIT 1)
_fetch_proveedor_by_cuit(p, cuit_norm) ==
    {id \in ProvIds :
        /\ View(p)[id].cuit # <<>>
        /\ \/ DigitsOnly(View(p)[id].cuit) = cuit_norm
           \/ SelectSeq(View(p)[id].cuit, LAMBDA c : c # "-") = cuit_norm}
\* the id an INSERT gets: the first one no row has, committed or not
NuevoId ==
    CHOOSE id \in ProvIds :
       /\ \A q \in Procs : View(q)[id].cuit = <<>>
       /\ \A otro \in 1..(id - 1) : \E q \in Procs : View(q)[otro].cuit # <<>>
\* SELECT id FROM proveedor WHERE telefono = tel: the ids fetchone() can return
Holders(p, tel) == {id \in ProvIds : View(p)[id].cuit # <<>> /\ View(p)[id].telefono = tel}

\* UPDATE proveedor SET telefono = %s WHERE id = prov_id, as writes
SetTelefono(p) ==
    Writes(tx[p], loc[p].prov_id, [View(p)[loc[p].prov_id] EXCEPT !.telefono = loc[p].tel])

\* upsert_proveedor: the row of the CUIT, or the INSERT of a new one
upsert_proveedor_fetch(p) ==
    /\ pc[p] = "pu_fetch"
    /\ LET found == _fetch_proveedor_by_cuit(p, loc[p].cuit_norm)
           nuevo == Writes(tx[p], NuevoId,
                           ProvRow(loc[p].cuit_norm, req[p].razon_social, <<>>))
       IN IF found # {}
          THEN \E id \in found :
                  /\ ProvStep(p, "pu_upd", [loc[p] EXCEPT !.prov_id = id], tx[p])
                  /\ UNCHANGED lockV
          ELSE IF loc[p].tel = <<>>
          THEN ProvDone(p, nuevo, {}, 0)
          ELSE /\ Locks(p, NuevoId)
               /\ ProvStep(p, "p_holder", [loc[p] EXCEPT !.prov_id = NuevoId], nuevo)

\* upsert_proveedor: UPDATE proveedor SET razon_social = COALESCE(%s, razon_social) ...
upsert_proveedor_update(p) ==
    /\ pc[p] = "pu_upd"
    /\ LET w == Writes(tx[p], loc[p].prov_id,
                       [View(p)[loc[p].prov_id] EXCEPT !.razon_social = req[p].razon_social])
       IN IF loc[p].tel = <<>>
          THEN CanLock(p, loc[p].prov_id) /\ ProvDone(p, w, {}, 0)
          ELSE Locks(p, loc[p].prov_id) /\ ProvStep(p, "p_holder", loc[p], w)

\* upsert_telefono: the row of the CUIT, or 404
upsert_telefono_fetch(p) ==
    /\ pc[p] = "pt_fetch"
    /\ LET found == _fetch_proveedor_by_cuit(p, loc[p].cuit_norm)
       IN IF found = {}
          THEN ProvAbort(p, 404, loc[p])
          ELSE \E id \in found :
                  /\ ProvStep(p, "p_holder", [loc[p] EXCEPT !.prov_id = id], tx[p])
                  /\ UNCHANGED lockV

\* upsert_proveedor and upsert_telefono: the holder of the telefono: 409, or
\* the transfer, or straight to the UPDATE
HolderCheck(p) ==
    /\ pc[p] = "p_holder"
    /\ \E holder \in IF Holders(p, loc[p].tel) = {} THEN {0} ELSE Holders(p, loc[p].tel) :
         IF holder # 0 /\ holder # loc[p].prov_id
         THEN IF ~req[p].transfer_if_in_use
              THEN ProvAbort(p, 409, [loc[p] EXCEPT !.holder = holder])
              ELSE /\ ProvStep(p, "p_null", [loc[p] EXCEPT !.holder = holder], tx[p])
                   /\ UNCHANGED lockV
         ELSE /\ ProvStep(p, "p_tel", [loc[p] EXCEPT !.holder = holder], tx[p])
              /\ UNCHANGED lockV

\* UPDATE proveedor SET telefono = NULL WHERE id = holder
Transfer(p) ==
    /\ pc[p] = "p_null"
    /\ Locks(p, loc[p].holder)
    /\ ProvStep(p, "p_tel", loc[p],
                Writes(tx[p], loc[p].holder, [View(p)[loc[p].holder] EXCEPT !.telefono = <<>>]))

\* the UPDATE of the telefono of the target, the final SELECT and the commit
TelefonoCommit(p) ==
    /\ pc[p] = "p_tel"
    /\ CanLock(p, loc[p].prov_id)
    /\ ProvDone(p, SetTelefono(p), {}, 0)

\* agregar_a_pedido: INSERT INTO pedido_proveedor ... ON CONFLICT DO NOTHING,
\* UPDATE pedido SET adjudicado_a when asked for the adjudicatario, commit
LinkCommit(p, w, prov_id) ==
    LET adjudicado_a ==
           IF req[p].set_adjudicado /\ req[p].rol = "adjudicatario" THEN prov_id ELSE 0
    IN /\ adjudicado_a # 0 => RowLockFree(lockP)
       /\ ProvDone(p, w, {<<req[p].pedido_id, prov_id, req[p].rol>>}, adjudicado_a)

\* agregar_a_pedido: the pedido exists; _ensure_proveedor: the row of the
\* CUIT or a new one
agregar_a_pedido_fetch(p) ==
    /\ pc[p] = "pa_fetch"
    /\ IF req[p].pedido_id # 1
       THEN ProvAbort(p, 404, loc[p])
       ELSE LET found == _fetch_proveedor_by_cuit(p, loc[p].cuit_norm)
                rs == IF req[p].razon_social = <<>>
                      THEN <<"Proveedor ">> \o loc[p].cuit_norm ELSE req[p].razon_social
                w == IF found = {}
                     THEN Writes(tx[p], NuevoId, ProvRow(loc[p].cuit_norm, rs, <<>>))
                     ELSE tx[p]
            IN \E prov_id \in IF found = {} THEN {NuevoId} ELSE found :
                  IF loc[p].tel = <<>>
                  THEN LinkCommit(p, w, prov_id)
                  ELSE /\ IF found = {} THEN Locks(p, prov_id) ELSE UNCHANGED lockV
                       /\ ProvStep(p, "pa_holder", [loc[p] EXCEPT !.prov_id = prov_id], w)

\* SELECT id ... WHERE telefono = %s AND id <> %s: 409 when somebody else holds it
agregar_a_pedido_holder(p) ==
    /\ pc[p] = "pa_holder"
    /\ IF Holders(p, loc[p].tel) \ {loc[p].prov_id} # {}
       THEN \E holder \in Holders(p, loc[p].tel) \ {loc[p].prov_id} :
               ProvAbort(p, 409, [loc[p] EXCEPT !.holder = holder])
       ELSE /\ ProvStep(p, "pa_tel", loc[p], tx[p])
            /\ UNCHANGED lockV

agregar_a_pedido_telefono(p) ==
    /\ pc[p] = "pa_tel"
    /\ CanLock(p, loc[p].prov_id)
    /\ LinkCommit(p, SetTelefono(p), loc[p].prov_id)

\* the client whose row lock the next UPDATE of p waits for (0: nobody)
ProvBloquea(p) ==
    LET id == IF pc[p] = "p_null" THEN loc[p].holder
              ELSE IF pc[p] \in {"pu_upd", "p_tel", "pa_tel"} THEN loc[p].prov_id
              ELSE 0
    IN IF id = 0 \/ lockV[id] = p THEN 0 ELSE lockV[id]

\* PostgreSQL finds two transactions waiting for each other and aborts one
deadlock_detected(p) ==
    /\ ProvBloquea(p) # 0
    /\ ProvBloquea(ProvBloquea(p)) = p
    /\ ProvAbort(p, 500, loc[p])

\* ------------------------------------------ WhatsApp send (app/routes/wsp.py)
\* numbers a caller passes as `to`: up to MaxMsisdn characters
MsisdnIn == UNION {[1..n -> {"5", "4", "9", "+"}] : n \in 0..MaxMsisdn}

StartsWith(s, pre) == Len(s) >= Len(pre) /\ SubSeq(s, 1, Len(pre)) = pre

\* bug: the given digits only, no Argentine alternative
_candidate_to_variants_sin_alternativa(to_digits) == <<to_digits>>
_candidate_to_variants(to_digits) ==
    IF StartsWith(to_digits, <<"5", "4", "9">>)
    THEN <<to_digits, <<"5", "4">> \o SubSeq(to_digits, 4, Len(to_digits))>>
    ELSE IF StartsWith(to_digits, <<"5", "4">>)
    THEN <<to_digits, <<"5", "4", "9">> \o SubSeq(to_digits, 3, Len(to_digits))>>
    ELSE <<to_digits>>

\* what _post_once gives: (ok, data, status), or the HTTPException(502) it raises;
\* data is the text of the response, word by word
PostResult(ok, data, status, raised) ==
    [ok |-> ok, data |-> data, status |-> status, raised |-> raised]
PostResults ==
    {PostResult(TRUE, <<"messages">>, 200, FALSE),
     PostResult(FALSE, <<"(#", "131030", ")">>, 400, FALSE),
     PostResult(FALSE, <<"Recipient", "Not In Allowed List">>, 400, FALSE),
     PostResult(FALSE, <<"invalid", "token">>, 401, FALSE),
     PostResult(FALSE, <<"Error HTTP al llamar a Meta">>, 502, TRUE)}
\* "131030" in str(data) or "not in allowed list" in str(data).lower()
AllowListError(data) ==
    LET lower(w) == IF w = "Not In Allowed List" THEN "not in allowed list" ELSE w
    IN \E i \in 1..Len(data) : data[i] = "131030" \/ lower(data[i]) = "not in allowed list"

\* how the call ended: the value returned or the HTTPException raised
Ret(kind, status, data) == [kind |-> kind, status |-> status, data |-> data]

\* the locals of _send_with_fallback before the call
WspIdle ==
    [pc |-> "idle", to |-> <<>>, variants |-> <<>>, posted |-> <<>>,
     resp |-> PostResult(FALSE, <<>>, 0, FALSE),
     last_err_text |-> <<>>, last_status |-> 0, ret |-> Ret(None, 0, <<>>)]

\* _require_env, _digits_only, _candidate_to_variants
_send_with_fallback_begin ==
    /\ wsp.pc = "idle"
    /\ \E to_msisdn_no_plus \in MsisdnIn, env \in BOOLEAN :
         wsp' = IF ~env
                THEN [WspIdle EXCEPT !.pc = "done", !.to = to_msisdn_no_plus,
                                     !.ret = Ret("raise", 500, <<"Faltan variables de entorno">>)]
                ELSE [WspIdle EXCEPT !.pc = "loop", !.to = to_msisdn_no_plus,
                                     !.variants =
                                        _candidate_to_variants(DigitsOnly(to_msisdn_no_plus))]
    /\ UNCHANGED fijosWsp

\* one turn of the loop: _post_once for the next variant, and the raise after
\* the loop when that was the last one
_send_with_fallback_attempt ==
    /\ wsp.pc = "loop"
    /\ \E r \in PostResults :
         LET cand == wsp.variants[Len(wsp.posted) + 1]
             posted == Append(wsp.posted, cand)
             w == [wsp EXCEPT !.posted = posted, !.resp = r]
         IN wsp' =
              IF r.raised
              THEN [w EXCEPT !.pc = "done", !.ret = Ret("raise", r.status, r.data)]
              ELSE IF r.ok
              THEN [w EXCEPT !.pc = "done", !.ret = Ret("return", 0, r.data)]
              ELSE IF AllowListError(r.data)
              THEN IF Len(posted) < Len(wsp.variants)
                   THEN [w EXCEPT !.last_err_text = r.data, !.last_status = r.status]
                   ELSE [w EXCEPT !.pc = "done",
                                  !.last_err_text = r.data, !.last_status = r.status,
                                  !.ret = Ret("raise",
                                              IF r.status = 0 THEN 400 ELSE r.status,
                                              IF r.data = <<>> THEN <<"send error">>
                                              ELSE r.data)]
              ELSE [w EXCEPT !.pc = "done", !.ret = Ret("raise", r.status, r.data)]
    /\ UNCHANGED fijosWsp

\* ------------------------------------------------------- specification
\* the requests the clients send
Requests ==
    {Request("decidir_pedido", d, None) : d \in DecisionsIn}
    \cup {Request("ui_pedidos_set_estado", e, None) : e \in EstadoNuevo}
    \cup {Request("review_archivo", d, t) : d \in ReviewDecisions, t \in ALLOWED_TIPO_DOC}
    \cup {Request("review_archivo", d, "formal_pdf") : d \in {" Aprobado", "rechazado"}}
    \cup {Request("ui_review_archivo", d, t) : d \in ReviewDecisions, t \in ALLOWED_TIPO_DOC}
    \cup {Request(op, "aprobado", "huerfano") : op \in {"review_archivo", "ui_review_archivo"}}
    \cup {Request("upload_archivo", None, t) : t \in ALLOWED_TIPO_DOC \cup {"otro"}}
    \cup {Request("ui_upload_formal", None, "formal_pdf")}
    \cup {Request("ui_pedidos_list", None, None)}
    \cup {Request("archivos.upload_archivo", None, t) : t \in {"formal_pdf", "otro"}}
    \cup {Request("update_pedido", None, None)}

\* the two clients are interchangeable: a run and the run with the clients
\* swapped are the same, so one of the two is explored
RECURSIVE Enumerar(_)
Enumerar(S) ==
    IF S = {} THEN <<>> ELSE LET r == CHOOSE x \in S : TRUE IN <<r>> \o Enumerar(S \ {r})
Planes ==
    LET lista == Enumerar(Requests)
    IN UNION {{<<lista[i], lista[j]>> : j \in i..Len(lista)} : i \in 1..Len(lista)}

Base == [estado |-> "enviado", user |-> None, notes |-> <<"a">>, monto |-> <<>>]
\* the runs: the default one, and those that differ from it in one respect
Escenarios ==
    {[Base EXCEPT !.estado = e] : e \in EstadosAlta}
    \cup {[Base EXCEPT !.user = u] : u \in UsersIn}
    \cup {[Base EXCEPT !.notes = n] : n \in NotesIn}
    \cup {[Base EXCEPT !.monto = m] : m \in MontosIn}

\* the handlers that read presupuesto_estimado, and those that read notes,
\* motivo, X-User or changed_by: a run varies what one of its requests reads
Relevante(e, plan) ==
    /\ e.monto # Base.monto => \E i \in 1..2 : plan[i].op = "ui_pedidos_set_estado"
    /\ (e.user # Base.user \/ e.notes # Base.notes) => \E i \in 1..2 : plan[i].op \in {"decidir_pedido", "ui_pedidos_set_estado",
                                                  "review_archivo", "ui_review_archivo"}

Init ==
    \E e \in Escenarios :
       /\ estado = e.estado
       /\ creado = e.estado
       /\ historial = <<>>
       /\ archivo = [t \in ArchivoIds |-> FreshRow]
       /\ pedido = [presupuesto_estimado |-> e.monto, secretaria_nombre |-> "Obras",
                    adjudicado_a |-> 0]
       /\ lockP = 0
       /\ lockA = [t \in ArchivoIds |-> 0]
       /\ pc = [p \in Procs |-> "idle"]
       /\ req \in {plan \in Planes : Relevante(e, plan)}
       /\ out = NoOut
       /\ loc = [p \in Procs |-> NoLoc]
       /\ tx = [p \in Procs |-> NoTx]
       /\ caller = [user |-> e.user, notes |-> e.notes]
       /\ nchg = 0
       /\ clean = NotClean
       /\ pair = NoPair
       /\ proveedor = ProveedorInicial(<<>>)
       /\ pedido_proveedor = {}
       /\ lockV = [id \in ProvIds |-> 0]
       /\ wsp = WspIdle

Next ==
    \E p \in Procs :
       \/ decidir_pedido_begin(p) /\ UNCHANGED otros
       \/ decidir_pedido_invalid(p) /\ UNCHANGED otros
       \/ decidir_pedido_lock(p) /\ UNCHANGED otros
       \/ decidir_pedido_commit(p) /\ UNCHANGED otros
       \/ ui_pedidos_set_estado_begin(p) /\ UNCHANGED otros
       \/ ui_pedidos_set_estado_lock(p) /\ UNCHANGED otros
       \/ ui_pedidos_set_estado_commit(p) /\ UNCHANGED otros
       \/ review_archivo_begin(p) /\ UNCHANGED otros
       \/ review_archivo_invalid(p) /\ UNCHANGED otros
       \/ ui_review_archivo_begin(p) /\ UNCHANGED otros
       \/ ReviewLockArchivo(p) /\ UNCHANGED otros
       \/ ReviewLockPedido(p) /\ UNCHANGED otros
       \/ ReviewCommit(p) /\ UNCHANGED otros
       \/ upload_archivo_begin(p) /\ UNCHANGED otros
       \/ upload_archivo_check(p) /\ UNCHANGED otros
       \/ upload_archivo_meta(p) /\ UNCHANGED otros
       \/ upload_archivo_read(p) /\ UNCHANGED otros
       \/ _set_estado_read(p) /\ UNCHANGED otros
       \/ _set_estado_update(p) /\ UNCHANGED otros
       \/ upload_archivo_commit(p) /\ UNCHANGED otros
       \/ archivos_upload_archivo_begin(p) /\ UNCHANGED otros
       \/ archivos_upload_archivo_check(p) /\ UNCHANGED otros
       \/ archivos_upload_archivo_meta(p) /\ UNCHANGED otros
       \/ ui_upload_formal_begin(p) /\ UNCHANGED otros
       \/ ui_upload_formal_check(p) /\ UNCHANGED otros
       \/ ui_pedidos_list_begin(p) /\ UNCHANGED otros
       \/ ui_pedidos_list_attempt(p) /\ UNCHANGED otros
       \/ update_pedido_begin(p) /\ UNCHANGED otros
       \/ update_pedido_update(p) /\ UNCHANGED otros
       \/ Fail(p) /\ UNCHANGED otros

Spec == Init /\ [][Next]_vars

\* the proveedores routes: two clients, each sending one request again and again
ProvPlanes ==
    LET lista == Enumerar(ProvRequests)
    IN UNION {{<<lista[i], lista[j]>> : j \in i..Len(lista)} : i \in 1..Len(lista)}

InitProv ==
    /\ estado = "enviado"
    /\ creado = "enviado"
    /\ historial = <<>>
    /\ archivo = [t \in ArchivoIds |-> FreshRow]
    /\ pedido = [presupuesto_estimado |-> <<>>, secretaria_nombre |-> "Obras",
                 adjudicado_a |-> 0]
    /\ lockP = 0
    /\ lockA = [t \in ArchivoIds |-> 0]
    /\ caller = [user |-> None, notes |-> <<"a">>]
    /\ nchg = 0
    /\ clean = NotClean
    /\ pair = NoPair
    /\ wsp = WspIdle
    /\ \E telefono \in {<<>>, _to_e164(Tel.solo)} : proveedor = ProveedorInicial(telefono)
    /\ pedido_proveedor = {}
    /\ lockV = [id \in ProvIds |-> 0]
    /\ pc = [p \in Procs |-> "idle"]
    /\ req \in ProvPlanes
    /\ out = NoProvOut
    /\ loc = [p \in Procs |-> NoProvLoc]
    /\ tx = [p \in Procs |-> {}]

NextProv ==
    \E p \in Procs :
       \/ ProvArrive(p)
       \/ ProvCheck(p)
       \/ upsert_proveedor_fetch(p)
       \/ upsert_proveedor_update(p)
       \/ upsert_telefono_fetch(p)
       \/ HolderCheck(p)
       \/ Transfer(p)
       \/ TelefonoCommit(p)
       \/ agregar_a_pedido_fetch(p)
       \/ agregar_a_pedido_holder(p)
       \/ agregar_a_pedido_telefono(p)
       \/ deadlock_detected(p)

SpecProv == InitProv /\ [][NextProv]_vars

\* the WhatsApp send: one call of _send_with_fallback
InitWsp ==
    /\ estado = "enviado"
    /\ creado = "enviado"
    /\ historial = <<>>
    /\ archivo = [t \in ArchivoIds |-> FreshRow]
    /\ pedido = [presupuesto_estimado |-> <<>>, secretaria_nombre |-> "Obras",
                 adjudicado_a |-> 0]
    /\ lockP = 0
    /\ lockA = [t \in ArchivoIds |-> 0]
    /\ caller = [user |-> None, notes |-> <<"a">>]
    /\ nchg = 0
    /\ clean = NotClean
    /\ pair = NoPair
    /\ proveedor = ProveedorInicial(<<>>)
    /\ pedido_proveedor = {}
    /\ lockV = [id \in ProvIds |-> 0]
    /\ pc = [p \in Procs |-> "idle"]
    /\ req = [p \in Procs |-> Request(None, None, None)]
    /\ out = NoOut
    /\ loc = [p \in Procs |-> NoLoc]
    /\ tx = [p \in Procs |-> NoTx]
    /\ wsp = WspIdle

NextWsp ==
    \/ _send_with_fallback_begin
    \/ _send_with_fallback_attempt

SpecWsp == InitWsp /\ [][NextWsp]_vars

\* ------------------------------------------------------------- properties
Last(h) == h[Len(h)]
DecisionReviewOps ==
    {"decidir_pedido", "ui_pedidos_set_estado", "review_archivo", "ui_review_archivo"}
\* client p's request ends in this step
Ends(p) == pc[p] # "idle" /\ pc'[p] = "idle"

\* C1: the number of pedido_historial rows of the pedido equals the number of
\* committed changes of the value of estado: one row per change, no row
\* without a change.
C1_RowsEqualChanges == Len(historial) = nchg

\* C2: a transition is committed as a unit.  A step that changes estado
\* appends exactly the row that records the new value; a step that appends a
\* row leaves estado at that row's estado_nuevo; and a request that ends with
\* an error leaves estado, pedido_historial and the archivos' review_* as
\* they were, whatever it had written in its transaction.
C2_SingleUnit ==
    [][ /\ (estado' # estado \/ historial' # historial) =>
              /\ Len(historial') = Len(historial) + 1
              /\ SubSeq(historial', 1, Len(historial)) = historial
              /\ Last(historial').estado_nuevo = estado'
        /\ (out' # out /\ out'.code \notin {0, 200}) =>
              /\ estado' = estado
              /\ historial' = historial
              /\ archivo' = archivo ]_vars

\* a request failed with writes pending in its transaction, after another committed
C2_Witness == out.undone /\ out.code = 500 /\ historial # <<>>

\* C3: the rows of pedido_historial form a chain: the first row starts from
\* the estado the pedido was created in, every other row from the
\* estado_nuevo of the row before it.
C3_Chain ==
    \A i \in 1..Len(historial) :
       historial[i].estado_anterior =
          IF i = 1 THEN creado ELSE historial[i - 1].estado_nuevo

\* has the request of client p read estado in its open transaction?
HasReadEstado(p) ==
    \/ pc[p] \in {"d_commit", "s_commit", "u_set", "u_upd", "u_commit"}
    \/ /\ pc[p] = "r_commit"
       /\ StripLower(req[p].dec) = "aprobado"
       /\ MovesPedido(req[p].op, TipoDoc(req[p].tipo))

\* C4: a request that has read estado in order to change it holds the row
\* lock of the pedido until it commits.
C4_LockFromReadToCommit == \A p \in Procs : HasReadEstado(p) => lockP = p

\* position of an estado on the line borrador -> ... -> cerrado (0: side-branch)
Etapa(e) ==
    CASE e = "borrador" -> 1
      [] e = "enviado" -> 2
      [] e = "en_revision" -> 3
      [] e = "aprobado" -> 4
      [] e = "en_proceso" -> 5
      [] e = "area_pago" -> 6
      [] e = "cerrado" -> 7
      [] OTHER -> 0

\* C5: estado never moves backward along borrador -> enviado -> en_revision
\* -> aprobado -> en_proceso -> area_pago -> cerrado: no step takes the
\* pedido from a later stage of the line to an earlier one.
C5_NeverBackward ==
    [][(Etapa(estado) > 0 /\ Etapa(estado') > 0) => Etapa(estado') >= Etapa(estado)]_vars

\* C6: a decision, set-estado or review request sent a second time right
\* after its first response, nothing else in between, leaves estado as the
\* first left it and appends no row.
C6_Idempotent ==
    [][\A p \in Procs :
          (req[p].op \in DecisionReviewOps /\ clean = <<p, 2>> /\ clean' = <<p, 3>>) =>
             (estado' = estado /\ historial' = historial)]_vars

\* the second response is out, and the state the request asked for is the
\* one its first run recorded
C6_Witness ==
    \E p \in Procs :
       /\ clean = <<p, 3>>
       /\ req[p].op \in DecisionReviewOps
       /\ out.p = p /\ out.code \in {200, 409}
       /\ historial # <<>>
       /\ Last(historial).estado_nuevo = Target(req[p])
       /\ estado = Target(req[p])

\* rows appended since the two requests overlapped that record their target
RowsOfPair ==
    {i \in (pair.base + 1)..Len(historial) : historial[i].estado_nuevo = pair.target}

\* C7: of two overlapping decision or review requests that ask for the same
\* target state, at most one appends a row for it: the other finds the state
\* already there (or the request refused) and writes nothing.
C7_Serialized == pair.on => Cardinality(RowsOfPair) <= 1

\* both requests of the pair are answered, the later one without failure,
\* and one row records the target
C7_Witness ==
    /\ pair.on
    /\ \A p \in Procs : pc[p] = "idle"
    /\ out.code \in {200, 409}
    /\ Cardinality(RowsOfPair) = 1
    /\ estado = pair.target

\* the rows of the table of transition triggers: can `to` replace `from`?
TablaProduce(from, to) ==
    \/ to = "aprobado" /\ from \notin {"aprobado", "cerrado", "area_pago", "en_proceso"}
    \/ to = "observado"
    \/ to = "rechazado"
    \/ to = "aprobado" /\ from = "enviado"
    \/ to = "en_proceso" /\ from # "en_proceso"
    \/ to = "area_pago" /\ from # "area_pago"
    \/ to = "cerrado" /\ from # "cerrado"

NueveEstados ==
    {"borrador", "enviado", "en_revision", "aprobado", "rechazado", "en_proceso",
     "area_pago", "cerrado", "observado"}

\* C8 (as stated): estado is one of the nine values, and every new value is
\* one that a row of the table of transition triggers produces from the value
\* it replaces.
C8_TableOnly ==
    [][estado' \in NueveEstados /\ (estado' # estado => TablaProduce(estado, estado'))]_vars

\* C8 (amended): estado is one of the nine values, and every new value is
\* written by the request that ends in that step: by a decision or a review
\* as a row of the table produces it from the value it replaces, by a
\* set-estado request as the estado it asks for (aprobado or en_revision,
\* whatever the value replaced), by an upload (ui_upload_formal is one of
\* formal_pdf) as the target of its tipo_doc (en_proceso, area_pago, cerrado).
C8_TableOrDirect ==
    [][/\ estado' \in NueveEstados
       /\ estado' # estado =>
            \E p \in Procs :
               /\ Ends(p)
               /\ CASE req[p].op = "ui_pedidos_set_estado" ->
                         estado' = req[p].dec /\ estado' \in {"aprobado", "en_revision"}
                    [] req[p].op \in {"upload_archivo", "ui_upload_formal"} ->
                         \/ req[p].tipo = "formal_pdf" /\ estado' = "en_proceso"
                         \/ req[p].tipo = "expediente_1" /\ estado' = "area_pago"
                         \/ req[p].tipo = "expediente_2" /\ estado' = "cerrado"
                    [] req[p].op \in {"decidir_pedido", "review_archivo", "ui_review_archivo"} ->
                         TablaProduce(estado, estado')
                    [] OTHER -> FALSE]_vars

\* a set-estado request has moved the pedido to en_revision
C8_Witness ==
    /\ estado = "en_revision"
    /\ historial # <<>>
    /\ Last(historial).estado_nuevo = "en_revision"
    /\ \E p \in Procs : req[p].op = "ui_pedidos_set_estado" /\ out.p = p /\ out.code = 200

Aprobar(p) == req[p].op = "decidir_pedido" /\ req[p].dec \in {"aprobar", " Aprobar"}

\* C9: a decision "aprobar" that is answered (neither unknown pedido nor
\* failure): from an estado outside {aprobado, cerrado, area_pago,
\* en_proceso} it is accepted, estado becomes aprobado and one row (previous
\* estado -> aprobado) is appended; from an estado in that set it is refused
\* with 409 and neither estado nor pedido_historial changes.
C9_Aprobar ==
    [][\A p \in Procs :
          (Aprobar(p) /\ Ends(p) /\ out'.code \in {200, 409, 422}) =>
             IF estado \notin {"aprobado", "cerrado", "area_pago", "en_proceso"}
             THEN /\ out'.code = 200
                  /\ estado' = "aprobado"
                  /\ Len(historial') = Len(historial) + 1
                  /\ SubSeq(historial', 1, Len(historial)) = historial
                  /\ Last(historial').estado_anterior = estado
                  /\ Last(historial').estado_nuevo = "aprobado"
             ELSE /\ out'.code = 409
                  /\ estado' = estado
                  /\ historial' = historial]_vars

\* an approval was accepted and recorded, and the next one was refused
C9_Witness ==
    \E p \in Procs :
       /\ Aprobar(p)
       /\ out.p = p /\ out.code = 409
       /\ estado = "aprobado"
       /\ historial # <<>>
       /\ Last(historial).estado_nuevo = "aprobado"
       /\ Last(historial).motivo = caller.notes

ObservarRechazar(p) == req[p].op = "decidir_pedido" /\ req[p].dec \in {"observar", "rechazar"}
\* notes absent, empty or made of whitespace
SinNotas(n) == n = NoNotes \/ \A i \in 1..Len(n) : n[i] = " "
Destino(p) == IF req[p].dec = "observar" THEN "observado" ELSE "rechazado"

\* C10 (as stated): a decision "observar" or "rechazar" that is answered:
\* without notes it fails validation and changes nothing; with notes it sets
\* estado to observado (rechazado) from any estado and appends one row whose
\* motivo is the notes.
C10_AlwaysOneRow ==
    [][\A p \in Procs :
          (ObservarRechazar(p) /\ Ends(p) /\ out'.code \in {200, 409, 422}) =>
             IF SinNotas(caller.notes)
             THEN out'.code = 422 /\ estado' = estado /\ historial' = historial
             ELSE /\ out'.code = 200
                  /\ estado' = Destino(p)
                  /\ Len(historial') = Len(historial) + 1
                  /\ SubSeq(historial', 1, Len(historial)) = historial
                  /\ Last(historial').estado_anterior = estado
                  /\ Last(historial').estado_nuevo = Destino(p)
                  /\ Last(historial').motivo = caller.notes]_vars

\* C10 (amended): the same, except that with notes and the pedido already in
\* observado (rechazado) the request succeeds and appends nothing; from every
\* other estado it appends the one row.
C10_OneRowUnlessThere ==
    [][\A p \in Procs :
          (ObservarRechazar(p) /\ Ends(p) /\ out'.code \in {200, 409, 422}) =>
             IF SinNotas(caller.notes)
             THEN out'.code = 422 /\ estado' = estado /\ historial' = historial
             ELSE /\ out'.code = 200
                  /\ estado' = Destino(p)
                  /\ IF estado = Destino(p)
                     THEN historial' = historial
                     ELSE /\ Len(historial') = Len(historial) + 1
                          /\ SubSeq(historial', 1, Len(historial)) = historial
                          /\ Last(historial').estado_anterior = estado
                          /\ Last(historial').estado_nuevo = Destino(p)
                          /\ Last(historial').motivo = caller.notes]_vars

\* the decision was recorded with its notes, sent again, and answered 200
\* with the one row still the last
C10_Witness ==
    \E p \in Procs :
       /\ ObservarRechazar(p)
       /\ clean = <<p, 3>>
       /\ out.p = p /\ out.code = 200
       /\ estado = Destino(p)
       /\ Len(historial) = 1
       /\ Last(historial).motivo = caller.notes
       /\ ~SinNotas(caller.notes)

\* ------------------------------------------------------- document reviews
\* client p's request is a review with this decision, of either endpoint
Reviews(p, decision) ==
    /\ req[p].op \in {"review_archivo", "ui_review_archivo"}
    /\ StripLower(req[p].dec) = decision
\* historial grows in this step by exactly the row (ant -> nuevo)
AppendsRow(ant, nuevo) ==
    /\ Len(historial') = Len(historial) + 1
    /\ SubSeq(historial', 1, Len(historial)) = historial
    /\ Last(historial').estado_anterior = ant
    /\ Last(historial').estado_nuevo = nuevo

\* C11: a review that approves a presupuesto_1 or presupuesto_2 archivo of a
\* pedido in enviado moves the pedido to aprobado and appends exactly one row
\* (enviado -> aprobado) with motivo "aprobación de presupuesto"; with the
\* pedido in any other estado it leaves estado and pedido_historial unchanged.
C11_PresupuestoAprobado ==
    [][\A p \in Procs :
          (/\ Reviews(p, "aprobado")
           /\ req[p].tipo \in {"presupuesto_1", "presupuesto_2"}
           /\ Ends(p) /\ out'.code = 200) =>
             IF estado = "enviado"
             THEN /\ estado' = "aprobado"
                  /\ AppendsRow("enviado", "aprobado")
                  /\ Last(historial').motivo = <<"aprobación de presupuesto">>
             ELSE estado' = estado /\ historial' = historial]_vars

\* the approval of a presupuesto through POST /archivos/{id}/review was
\* answered and the pedido went from enviado to aprobado with that motivo
C11_Witness ==
    /\ out.p \in Procs /\ out.code = 200
    /\ req[out.p].op = "review_archivo"
    /\ req[out.p].tipo \in {"presupuesto_1", "presupuesto_2"}
    /\ estado = "aprobado"
    /\ historial # <<>>
    /\ Last(historial) = HistRow("enviado", "aprobado", <<"aprobación de presupuesto">>,
                                 OrDefault(caller.user, "ui"))

\* C12: a review that approves an archivo sets estado to the target of its
\* tipo_doc (formal_pdf -> en_proceso, expediente_1 -> area_pago, expediente_2
\* -> cerrado) and appends one row (previous -> target) when the current
\* estado differs from the target; when the pedido is already in the target
\* it appends nothing and changes nothing.
C12_DocumentoAprobado ==
    [][\A p \in Procs :
          (/\ Reviews(p, "aprobado")
           /\ req[p].tipo \in {"formal_pdf", "expediente_1", "expediente_2"}
           /\ Ends(p) /\ out'.code = 200) =>
             LET target == CASE req[p].tipo = "formal_pdf" -> "en_proceso"
                             [] req[p].tipo = "expediente_1" -> "area_pago"
                             [] req[p].tipo = "expediente_2" -> "cerrado"
             IN /\ estado' = target
                /\ IF estado = target
                   THEN historial' = historial
                   ELSE AppendsRow(estado, target)]_vars

\* expediente_2 was approved on a pedido in enviado (row enviado -> cerrado)
\* and then approved again: the second approval found the pedido in cerrado
\* and added no row
C12_Witness ==
    /\ out.p \in Procs /\ out.code = 200
    /\ Reviews(out.p, "aprobado") /\ req[out.p].tipo = "expediente_2"
    /\ clean = <<out.p, 3>>
    /\ estado = "cerrado"
    /\ Len(historial) = 1
    /\ historial[1].estado_anterior = "enviado" /\ historial[1].estado_nuevo = "cerrado"
    /\ historial[1].motivo = <<"aprobación de expediente_2">>

\* C13: a review with decision "observado", of any tipo_doc and with the
\* pedido in any estado, writes review_status, review_notes and reviewed_by of
\* the reviewed archivo only: estado, pedido_historial and every other
\* pedido_archivo row stay as they were.
C13_ObservadoFrame ==
    [][\A p \in Procs :
          (Reviews(p, "observado") /\ Ends(p) /\ out'.code = 200) =>
             /\ estado' = estado
             /\ historial' = historial
             /\ \A t \in DOMAIN archivo : t # req[p].tipo => archivo'[t] = archivo[t]
             /\ archivo'[req[p].tipo].review_status = "observado"]_vars

\* an expediente_2 was observed on a pedido that a request had moved before:
\* its row says observado, another row keeps its own review, estado stays
C13_Witness ==
    /\ out.p \in Procs /\ out.code = 200
    /\ Reviews(out.p, "observado") /\ req[out.p].tipo = "expediente_2"
    /\ archivo["expediente_2"].review_status = "observado"
    /\ \E t \in DOMAIN archivo : archivo[t].review_status = "aprobado"
    /\ estado \notin EstadosAlta
    /\ historial # <<>>

\* ------------------------------------------------------- failures reported
\* C14: a transition attempted against its precondition is answered with a
\* Conflict failure, never with a success that did nothing: the approval of
\* a presupuesto_1 or presupuesto_2 archivo whose pedido is not in enviado is
\* answered 409.
C14_ConflictReported ==
    [][\A p \in Procs :
          (/\ Reviews(p, "aprobado")
           /\ req[p].tipo \in {"presupuesto_1", "presupuesto_2"}
           /\ Ends(p) /\ out'.code \in {200, 409}
           /\ estado # "enviado") => out'.code = 409]_vars

\* the approval of a presupuesto through POST /archivos/{id}/review found the
\* pedido outside enviado, wrote nothing to it and was answered
C14_Witness ==
    /\ out.p \in Procs /\ out.code \in {200, 409}
    /\ req[out.p].op = "review_archivo"
    /\ req[out.p].tipo \in {"presupuesto_1", "presupuesto_2"}
    /\ archivo[req[out.p].tipo].review_status = "aprobado"
    /\ estado \notin {"enviado", "aprobado"}

\* the estado a manual request asks for
Pide(p) ==
    CASE req[p].op = "ui_pedidos_set_estado" -> req[p].dec
      [] req[p].op = "decidir_pedido" /\ LowerStrip(req[p].dec) = "aprobar" -> "aprobado"
      [] req[p].op = "decidir_pedido" /\ LowerStrip(req[p].dec) = "observar" -> "observado"
      [] req[p].op = "decidir_pedido" /\ LowerStrip(req[p].dec) = "rechazar" -> "rechazado"
      [] OTHER -> None

\* C15: a request of ui_pedidos_set_estado or decidir_pedido that asks for the
\* estado the pedido is in already, "aprobar" on an aprobado pedido included,
\* is a no-op answered with success (updated = false), not with a failure:
\* when it is answered past the permission and validation checks the answer
\* is 200 and nothing has changed.
C15_NoOpIsSuccess ==
    [][\A p \in Procs :
          (/\ req[p].op \in {"ui_pedidos_set_estado", "decidir_pedido"}
           /\ Pide(p) = estado
           /\ Ends(p) /\ out'.code \in {200, 409}) =>
             /\ out'.code = 200
             /\ estado' = estado
             /\ historial' = historial]_vars

\* ui_pedidos_set_estado was asked for the estado the pedido was in and
\* answered 200 without writing a row
C15_Witness ==
    /\ out.p \in Procs /\ out.code = 200
    /\ req[out.p].op = "ui_pedidos_set_estado"
    /\ clean = <<out.p, 3>>
    /\ estado = req[out.p].dec
    /\ Len(historial) = 1

\* ------------------------------------------------------- permission gate
\* the header is absent, or names a secretariat other than the pedido's and
\* resolves to no role, or resolves to the compras role the amount excludes
Rechazable(x_secretaria, row) ==
    \/ x_secretaria \in {None, "Salud"}
    \/ x_secretaria = "Area de Compras" /\ MontoDe(row) <= 10000000
    \/ x_secretaria = "Secretaria de Compras" /\ MontoDe(row) > 10000000

\* C16: ui_pedidos_set_estado answers 403 and changes neither estado nor
\* pedido_historial for every caller whose X-Secretaria is absent, or names a
\* secretariat other than the pedido's (compared trimmed, case-insensitively)
\* and resolves neither to economia_admin nor to an allowed compras role;
\* whatever estado it asks for, the current one included.
C16_Rejected ==
    [][\A p \in Procs :
          (/\ req[p].op = "ui_pedidos_set_estado"
           /\ Ends(p) /\ out'.ask.pedido_id = 1
           /\ Rechazable(out'.ask.x_secretaria, pedido)) =>
             /\ out'.code = 403
             /\ estado' = estado
             /\ historial' = historial]_vars

\* a caller of another secretariat asked for the estado the pedido was in
\* and was answered 403
C16_Witness ==
    /\ out.p \in Procs /\ out.code = 403
    /\ req[out.p].op = "ui_pedidos_set_estado"
    /\ out.ask.x_secretaria = "Salud"
    /\ estado = req[out.p].dec
    /\ Len(historial) = 1

\* C17: in ui_pedidos_set_estado economia_admin is always allowed,
\* area_compras exactly when presupuesto_estimado > 10,000,000 and
\* secretaria_compras exactly when presupuesto_estimado <= 10,000,000, a
\* missing amount counting as 0; so for every amount the gate allows exactly
\* one of the two compras roles, at 10,000,000 secretaria_compras.
C17_Umbral ==
    [][\A p \in Procs :
          (/\ req[p].op = "ui_pedidos_set_estado"
           /\ Ends(p) /\ out'.ask.pedido_id = 1) =>
             LET x == out'.ask.x_secretaria
                 monto == IF pedido.presupuesto_estimado = <<>> THEN 0
                          ELSE pedido.presupuesto_estimado[1]
             IN /\ x = "Sec. de Economia" => out'.code = 200
                /\ x = "Area de Compras" => (out'.code = 200 <=> monto > 10000000)
                /\ x = "Area de Compras" => (out'.code = 403 <=> monto <= 10000000)
                /\ x = "Secretaria de Compras" => (out'.code = 200 <=> monto <= 10000000)
                /\ x = "Secretaria de Compras" => (out'.code = 403 <=> monto > 10000000)
                /\ Permiso("Area de Compras", pedido) # Permiso("Secretaria de Compras", pedido)]_vars

\* at presupuesto_estimado = 10,000,000 secretaria_compras moved the pedido
C17_Witness ==
    /\ out.p \in Procs /\ out.code = 200
    /\ req[out.p].op = "ui_pedidos_set_estado"
    /\ out.ask.x_secretaria = "Secretaria de Compras"
    /\ pedido.presupuesto_estimado = <<10000000>>
    /\ estado = req[out.p].dec
    /\ historial # <<>>
    /\ Last(historial).estado_nuevo = req[out.p].dec

\* C18: a manual request, of ui_pedidos_set_estado or of decidir_pedido with
\* "aprobar", moves a pedido to aprobado only for a caller the permission
\* gate allows: no pedido becomes aprobado by a manual request of a caller
\* the gate would reject.
C18_GateBeforeAprobado ==
    [][\A p \in Procs :
          (/\ req[p].op \in {"ui_pedidos_set_estado", "decidir_pedido"}
           /\ Ends(p)
           /\ estado # "aprobado" /\ estado' = "aprobado") =>
             Permiso(out'.ask.x_secretaria, pedido)]_vars

\* ui_pedidos_set_estado moved the pedido to aprobado for the pedido's own
\* secretariat
C18_Witness ==
    /\ out.p \in Procs /\ out.code = 200
    /\ req[out.p].op = "ui_pedidos_set_estado"
    /\ out.ask.x_secretaria = " obras "
    /\ estado = "aprobado"
    /\ historial # <<>>
    /\ Last(historial).estado_nuevo = "aprobado"

\* ------------------------------------------------------- pedido_historial
\* C19: pedido_historial is append-only: whatever the handlers do, a
\* committed row is never modified or removed; the rows of the pedido after
\* a step are the rows before it, followed by the rows the step appended.
C19_AppendOnly ==
    [][/\ Len(historial') >= Len(historial)
       /\ SubSeq(historial', 1, Len(historial)) = historial]_vars

\* two rows were committed by requests of different handlers and the first
\* is still in place under the second
C19_Witness ==
    /\ Len(historial) >= 2
    /\ historial[1].estado_anterior \in EstadosAlta
    /\ historial[2].estado_anterior = historial[1].estado_nuevo
    /\ historial[1].motivo # historial[2].motivo

\* ------------------------------------------------------------- not found
\* C20: a decision, set-estado or review request that names a pedido or an
\* archivo that does not exist is answered 404 and persists nothing; a
\* review that finds the archivo but not the pedido it belongs to is answered
\* 404 too, and the review_* it had written are not committed.
C20_NotFound ==
    [][\A p \in Procs :
          (/\ req[p].op \in {"decidir_pedido", "ui_pedidos_set_estado",
                              "review_archivo", "ui_review_archivo"}
           /\ Ends(p)
           /\ \/ out'.ask.pedido_id = 2
              \/ out'.ask.archivo_id = "desconocido"
              \/ req[p].tipo = "huerfano" /\ out'.code # 500) =>
             /\ out'.code = 404
             /\ estado' = estado
             /\ historial' = historial
             /\ archivo' = archivo]_vars

\* the approval of the archivo without pedido had written its review_*, was
\* answered 404, and the row is as it was; the other client's review stays
C20_Witness ==
    /\ out.p \in Procs /\ out.code = 404 /\ out.undone
    /\ req[out.p].tipo = "huerfano"
    /\ out.ask.pedido_id = 2
    /\ archivo["huerfano"] = FreshRow
    /\ \E t \in DOMAIN archivo : archivo[t].review_status = "aprobado"

\* ------------------------------------------------------ storage failures
\* client p takes a step of its request
StepOf(p) == pc'[p] # pc[p]

\* C21: a storage failure that is a dropped connection is surfaced to the
\* caller only after one retry: a request answered with the failure of a
\* dropped connection was on the second attempt of its database work.
C21_RetriedOnce ==
    [][\A p \in Procs : (Ends(p) /\ out'.fault = "dropped") => pc[p] = "l_2"]_vars

\* ui_pedidos_list lost the connection on both attempts and answered 500
C21_Witness ==
    /\ out.p \in Procs /\ out.code = 500 /\ out.fault = "dropped"
    /\ req[out.p].op = "ui_pedidos_list"

\* ---------------------------------------------------------------- uploads
\* C22: the upload of the signed formal PDF through ui_upload_formal changes
\* neither estado nor pedido_historial; the pedido goes to en_proceso when
\* the formal_pdf is reviewed as "aprobado", never at the upload.
C22_UploadFormalFrame ==
    [][\A p \in Procs :
          (req[p].op = "ui_upload_formal" /\ StepOf(p)) =>
             estado' = estado /\ historial' = historial]_vars

\* ui_upload_formal was answered 200 and the last row is the upload's
C22_Witness ==
    /\ out.p \in Procs /\ out.code = 200
    /\ req[out.p].op = "ui_upload_formal"
    /\ estado = "en_proceso"
    /\ historial # <<>>
    /\ Last(historial).changed_by = "upload:formal_pdf"

\* C24: an upload for a (pedido_id, tipo_doc) that has an archivo row, by
\* either upload endpoint, supersedes the row in place and resets its review
\* cycle: after the upsert review_status, review_notes and reviewed_by are
\* NULL, so the new file never keeps the "aprobado" of the file it replaced.
C24_UploadResetsReview ==
    [][\A p \in Procs :
          (pc[p] \in {"u_meta", "a_meta"} /\ StepOf(p)) =>
             archivo'[req[p].tipo] =
                [review_status |-> None, review_notes |-> NoNotes, reviewed_by |-> None]]_vars

\* a formal_pdf was approved (its row of the approval is the last one) and
\* then replaced through POST /archivos/{pedido_id}: its review_* are NULL
C24_Witness ==
    /\ out.p \in Procs /\ out.code = 200
    /\ req[out.p].op = "archivos.upload_archivo" /\ req[out.p].tipo = "formal_pdf"
    /\ historial # <<>>
    /\ Last(historial).motivo = <<"aprobación de formal_pdf">>
    /\ archivo["formal_pdf"] = FreshRow

\* C25: archivos.review_archivo and ui.ui_review_archivo implement the same
\* transition function: for every tipo_doc, estado and decision, what a
\* review does through one endpoint (the estado it leaves, the row it
\* appends) is what the other endpoint does with the same input.
C25_SameTransition ==
    [][\A p \in Procs :
          (/\ req[p].op \in {"review_archivo", "ui_review_archivo"}
           /\ req[p].tipo \in ALLOWED_TIPO_DOC
           /\ Ends(p) /\ out'.code = 200) =>
             LET otro == IF req[p].op = "review_archivo"
                         THEN "ui_review_archivo" ELSE "review_archivo"
                 \* what the other endpoint makes of the same input: the
                 \* estado it leaves and the rows it appends
                 nuevo == IF StripLower(req[p].dec) = "aprobado" /\ MovesPedido(otro, req[p].tipo)
                          THEN ReviewNuevo(otro, req[p].tipo, estado) ELSE None
                 rows == IF nuevo = None THEN <<>>
                         ELSE <<[estado_anterior |-> estado, estado_nuevo |-> nuevo,
                                 motivo |-> MotivoReview(otro, req[p].tipo)]>>
                 \* the rows this step appends, without changed_by
                 anexadas ==
                    [i \in 1..(Len(historial') - Len(historial)) |->
                        [estado_anterior |-> historial'[Len(historial) + i].estado_anterior,
                         estado_nuevo |-> historial'[Len(historial) + i].estado_nuevo,
                         motivo |-> historial'[Len(historial) + i].motivo]]
             IN /\ estado' = (IF nuevo = None THEN estado ELSE nuevo)
                /\ Len(historial') >= Len(historial)
                /\ anexadas = rows]_vars

\* both endpoints approved an expediente_2, one after the other, the first
\* with the row enviado -> cerrado and the second with none
C25_Witness ==
    /\ req[1].op = "review_archivo" /\ req[2].op = "ui_review_archivo"
    /\ req[1].tipo = "expediente_2" /\ req[2].tipo = "expediente_2"
    /\ req[1].dec = "aprobado" /\ req[2].dec = "aprobado"
    /\ out.p = 2 /\ out.code = 200
    /\ Len(historial) = 1
    /\ Last(historial).motivo = <<"aprobación de expediente_2">>
    /\ archivo["expediente_2"].review_status = "aprobado"
    /\ estado = "cerrado"

\* C26: in pedidos.upload_archivo an uploaded formal_pdf moves the pedido to
\* en_proceso only from borrador, enviado, en_revision or aprobado; an
\* uploaded expediente_1 moves it to area_pago and expediente_2 to cerrado
\* unless it is cerrado; presupuesto_1, presupuesto_2 and anexo1_obra move
\* nothing; so no upload moves a cerrado pedido, and every upload that
\* changes estado appends one row with changed_by "upload:<tipo_doc>".
C26_UploadTransitions ==
    [][\A p \in Procs :
          (req[p].op \in {"upload_archivo", "ui_upload_formal"} /\ StepOf(p)) =>
             IF estado' = estado
             THEN historial' = historial
             ELSE /\ estado # "cerrado"
                  /\ CASE req[p].tipo = "formal_pdf" ->
                             /\ estado \in {"borrador", "enviado", "en_revision", "aprobado"}
                             /\ estado' = "en_proceso"
                             /\ Last(historial').changed_by = "upload:formal_pdf"
                        [] req[p].tipo = "expediente_1" ->
                             /\ estado' = "area_pago"
                             /\ Last(historial').changed_by = "upload:expediente_1"
                        [] req[p].tipo = "expediente_2" ->
                             /\ estado' = "cerrado"
                             /\ Last(historial').changed_by = "upload:expediente_2"
                        [] OTHER -> FALSE
                  /\ Len(historial') = Len(historial) + 1
                  /\ SubSeq(historial', 1, Len(historial)) = historial
                  /\ Last(historial').estado_nuevo = estado']_vars

\* an expediente_1 was uploaded for a pedido in enviado and moved it to
\* area_pago with the row of the upload
C26_Witness ==
    /\ out.p \in Procs /\ out.code = 200
    /\ req[out.p].op = "upload_archivo" /\ req[out.p].tipo = "expediente_1"
    /\ estado = "area_pago"
    /\ historial = <<HistRow("enviado", "area_pago", NoNotes, "upload:expediente_1")>>

\* the client whose row lock the next statement of p waits for (0: nobody)
Bloquea(p) ==
    CASE pc[p] \in {"d_lock", "s_lock", "u_upd", "e_upd"} -> lockP
      [] pc[p] = "r_lockP" -> IF PedidoDe(req[p].tipo) = 1 THEN lockP ELSE 0
      [] pc[p] \in {"r_lockA", "u_meta", "a_meta"} -> lockA[req[p].tipo]
      [] OTHER -> 0
\* position of a statement in its handler
Rank(l) ==
    CASE l \in {"f_check"} -> 0
      [] l \in {"d_422", "d_lock", "s_lock", "r_422", "r_lockA", "u_check", "a_check",
                "e_upd", "l_1"} -> 1
      [] l \in {"d_commit", "s_commit", "r_lockP", "u_meta", "a_meta", "l_2"} -> 2
      [] l \in {"r_commit", "u_read"} -> 3
      [] l = "u_set" -> 4
      [] l = "u_upd" -> 5
      [] l = "u_commit" -> 6

C29_UpdatePedidoFrame ==
    [][\A p \in Procs :
          (req[p].op = "update_pedido" /\ StepOf(p)) =>
             /\ estado' = estado
             /\ historial' = historial
             /\ (Ends(p) /\ out'.fault = None /\ out'.ask.body = "vacio") =>
                    (out'.code = 200 /\ db' = db /\ locks' = locks)
             /\ (Ends(p) /\ out'.fault = None /\ out'.ask.body = "monto"
                  /\ out'.ask.pedido_id # 1) =>
                    (out'.code = 404 /\ db' = db /\ locks' = locks)]_vars

\* a PATCH without fields for an unknown pedido was answered 200 while the
\* other client held the row lock of the pedido
C29_Witness ==
    /\ out.p \in Procs /\ out.code = 200
    /\ req[out.p].op = "update_pedido"
    /\ out.ask.body = "vacio" /\ out.ask.pedido_id = 2
    /\ lockP \in Procs \ {out.p}

\* C23: in upsert_proveedor and upsert_telefono, when the telefono asked for
\* is held by a different proveedor: without transfer_if_in_use the request
\* ends with 409 and no proveedor row is created or modified (the insert or
\* the razon_social update done earlier in the request included); with
\* transfer_if_in_use the handler goes on to the transfer, and its commit
\* leaves the previous holder with telefono NULL and the target with the
\* telefono.
C23_ConflictOrTransfer ==
    [][\A p \in Procs :
          /\ (/\ pc[p] = "p_holder" /\ StepOf(p)
              /\ \E id \in ProvIds \ {loc[p].prov_id} :
                    proveedor[id].cuit # <<>> /\ proveedor[id].telefono = loc[p].tel) =>
                IF req[p].transfer_if_in_use
                THEN pc'[p] = "p_null"
                ELSE /\ pc'[p] = "idle" /\ out'.code = 409
                     /\ proveedor' = proveedor
          /\ (/\ pc[p] = "p_tel" /\ StepOf(p) /\ out'.code = 200
              /\ loc[p].holder \notin {0, loc[p].prov_id}) =>
                /\ proveedor'[loc[p].holder].telefono = <<>>
                /\ proveedor'[loc[p].prov_id].telefono = loc[p].tel]_vars

\* upsert_proveedor with transfer_if_in_use moved the telefono of proveedor 1
\* to a proveedor it had just inserted
C23_Witness ==
    /\ out.p \in Procs /\ out.code = 200 /\ out.op = "upsert_proveedor"
    /\ out.loc.holder = 1 /\ out.loc.prov_id = 3
    /\ proveedor[1].telefono = <<>>
    /\ proveedor[3].telefono = <<"+", "5", "4", "9", "1", "1", "1", "1", "1">>
    /\ proveedor[3].razon_social = <<"R">>

\* C27: whatever the interleaving of upsert_proveedor, upsert_telefono and
\* agregar_a_pedido requests, a telefono is held by at most one proveedor
\* row in every committed state.
C27_TelefonoUnico ==
    \A a, b \in ProvIds :
       (/\ proveedor[a].cuit # <<>> /\ proveedor[b].cuit # <<>>
        /\ proveedor[a].telefono # <<>>
        /\ proveedor[a].telefono = proveedor[b].telefono) => a = b

\* the two requests ended with 200 and each left its telefono on its row
C27_Witness ==
    /\ \A p \in Procs : pc[p] = "idle"
    /\ out.code = 200
    /\ proveedor[1].telefono = <<"+", "5", "4", "9", "1", "1", "1", "1", "1">>
    /\ proveedor[2].telefono = <<"+", "5", "4", "9", "1", "1", "1", "1", "1">>

\* C30: _send_with_fallback posts to the variants of the destination in
\* order, the given digits first and then the Argentine 54/549 alternative,
\* two attempts at most; it returns the data of the first successful send
\* and tries nothing after it; it goes on to the next variant only after an
\* allow-list error (131030, "not in allowed list"); any other failure is
\* raised at once with its status; and when every variant failed with the
\* allow-list error the last of them is raised.
C30_SendWithFallback ==
    [][(wsp.pc = "loop" /\ wsp' # wsp) =>
         LET d == SelectSeq(wsp.to, LAMBDA c : c \in {"5", "4", "9"})
             \* d itself, then the Argentine alternative (549... without the 9,
             \* 54... with it)
             esperadas ==
                IF Len(d) >= 3 /\ d[1] = "5" /\ d[2] = "4" /\ d[3] = "9"
                THEN <<d, <<"5", "4">> \o SubSeq(d, 4, Len(d))>>
                ELSE IF Len(d) >= 2 /\ d[1] = "5" /\ d[2] = "4"
                THEN <<d, <<"5", "4", "9">> \o SubSeq(d, 3, Len(d))>>
                ELSE <<d>>
             r == wsp'.resp
             allow == \E i \in 1..Len(r.data) :
                         r.data[i] \in {"131030", "Not In Allowed List", "not in allowed list"}
         IN /\ Len(wsp'.posted) = Len(wsp.posted) + 1
            /\ Len(wsp'.posted) <= 2
            /\ wsp'.posted = SubSeq(esperadas, 1, Len(wsp'.posted))
            /\ IF r.ok /\ ~r.raised
               THEN wsp'.pc = "done" /\ wsp'.ret = [kind |-> "return", status |-> 0, data |-> r.data]
               ELSE IF allow /\ ~r.raised /\ Len(wsp'.posted) < Len(esperadas)
               THEN wsp'.pc = "loop" /\ wsp'.ret.kind = None
               ELSE /\ wsp'.pc = "done"
                    /\ wsp'.ret = [kind |-> "raise", status |-> r.status, data |-> r.data]]_vars

\* both variants of a 549 number were posted, both failed with the
\* allow-list error, and the second error was raised
C30_Witness ==
    /\ wsp.pc = "done"
    /\ wsp.to = <<"+", "5", "4", "9">>
    /\ wsp.posted = << <<"5", "4", "9">>, <<"5", "4">> >>
    /\ wsp.resp.data = <<"Recipient", "Not In Allowed List">>
    /\ wsp.ret.kind = "raise" /\ wsp.ret.status = 400
====
